---- MODULE Spec2Model ----
(***************************************************************************)
(* Verification model of streamhub's retrieval and sanitization core:      *)
(*   - fetchViaProxy / searchVideos        (src/utils/api.ts)               *)
(*   - the search view's doSearch effect   (src/unnamed/part_003)           *)
(*   - fetchAndCleanM3u8                   (src/unnamed/part_001)           *)
(*   - the Player effect                  (src/unnamed/part_001)           *)
(*   - runSourceCheck / confirmCleanup     (src/App.tsx)                    *)
(*   - the merge of doSearch               (src/unnamed/part_003)           *)
(*   - parsePlayUrl                        (src/utils/api.ts)               *)
(*   - playVideo of the mounted Player     (src/unnamed/part_002)           *)
(*   - the App handlers managing sources   (src/App.tsx)                    *)
(*   - the watch history                   (src/utils/storage.ts)           *)
(*   - onRequest, the relay                (src/unnamed/part_003)           *)
(*   - fetchWMDBImage, the poster cache    (src/utils/douban.ts)            *)
(* Each component has its own specification (SpecFetch, SpecSearch,        *)
(* SpecSanitize, SpecVariants, SpecPlayer, SpecScan, SpecMerge, SpecParse, *)
(* SpecPlayVideo, SpecComplete, SpecSources, SpecHistory, SpecRelay,       *)
(* SpecImages, and FairSpecSearch for liveness); the variables of the      *)
(* other components stay idle.                                             *)
(***************************************************************************)
EXTENDS Integers, Sequences, FiniteSets, TLC

VARIABLES fpc, fi, ftarget, fext, fany, ftimer, flastError, fresult, flog

fvars == <<fpc, fi, ftarget, fext, fany, ftimer, flastError, fresult, flog>>

VARIABLES smounted, squery, saved, stimer, sctrl, sruns, spub

svars == <<smounted, squery, saved, stimer, sctrl, sruns, spub>>

VARIABLES zpc, zdepth, zurl, ztimer, zdoc, zresult, zorigin

zvars == <<zpc, zdepth, zurl, ztimer, zdoc, zresult, zorigin>>

VARIABLES pmounted, purl, pruns, part, pblob, phandles

pvars == <<pmounted, purl, pruns, part, pblob, phandles>>

VARIABLES hsources, hchecking, hstats, hs

VARIABLES hndefault, hdisabled, hcurrent

\* the configuration of App: allSources (the first hndefault are the default
\* sources, the others the stored custom sources), the disabled APIs and
\* the API of the current source
hconfig == <<hsources, hndefault, hdisabled, hcurrent>>

hvars == <<hsources, hchecking, hstats, hs, hndefault, hdisabled, hcurrent>>

VARIABLES msel, mresp, marrived, mresults, mdone

mvars == <<msel, mresp, marrived, mresults, mdone>>

VARIABLES ugroups, ustr, ubest, udone

uvars == <<ugroups, ustr, ubest, udone>>

VARIABLES vmounted, vurl, vruns, vart, vshown, vblob, vhandles

vvars == <<vmounted, vurl, vruns, vart, vshown, vblob, vhandles>>

VARIABLES ystored, ystamp, yclock

yvars == <<ystored, ystamp, yclock>>

VARIABLES rpc, rparam, rupstream, rresponse

rvars == <<rpc, rparam, rupstream, rresponse>>

VARIABLES icache, ilookups, irequests

ivars == <<icache, ilookups, irequests>>

\* the components added after the first seven
newvars == <<vvars, yvars, rvars, ivars>>

oldvars == <<fvars, svars, zvars, pvars, hvars, mvars, uvars>>

vars == <<oldvars, newvars>>

\* what a step of one component leaves alone
notFetch == <<svars, zvars, pvars, hvars, mvars, uvars, newvars>>
notSearch == <<fvars, zvars, pvars, hvars, mvars, uvars, newvars>>
notSanitize == <<fvars, svars, pvars, hvars, mvars, uvars, newvars>>
notPlayer == <<fvars, svars, zvars, hvars, mvars, uvars, newvars>>
notScan == <<fvars, svars, zvars, pvars, mvars, uvars, newvars>>
notMerge == <<fvars, svars, zvars, pvars, hvars, uvars, newvars>>
notParse == <<fvars, svars, zvars, pvars, hvars, mvars, newvars>>
notPlayVideo == <<oldvars, yvars, rvars, ivars>>
notHistory == <<oldvars, vvars, rvars, ivars>>
notRelay == <<oldvars, vvars, yvars, ivars>>
notImages == <<oldvars, vvars, yvars, rvars>>

(***************************************************************************)
(* Strings.  A text is a sequence of tokens; a token stands for a run of   *)
(* characters.  " " is white space, the upper-case tokens are the          *)
(* upper-case spellings of the lower-case ones.                            *)
(***************************************************************************)
ToLowerTok(t) ==
  CASE t = "<!DOCTYPE HTML" -> "<!doctype html"
    [] t = "<HTML" -> "<html"
    [] t = "I" -> "i"
    [] t = "T" -> "t"
    [] OTHER -> t

ToLowerCase(s) == [k \in 1..Len(s) |-> ToLowerTok(s[k])]

RECURSIVE TrimStart(_)
TrimStart(s) == IF s # <<>> /\ Head(s) = " " THEN TrimStart(Tail(s)) ELSE s

RECURSIVE TrimEnd(_)
TrimEnd(s) ==
  IF s # <<>> /\ s[Len(s)] = " " THEN TrimEnd(SubSeq(s, 1, Len(s) - 1)) ELSE s

Trim(s) == TrimEnd(TrimStart(s))

StartsWith(s, tok) == s # <<>> /\ Head(s) = tok

(***************************************************************************)
(* fetchViaProxy                                                           *)
(***************************************************************************)
\* PROXIES in a web build: the local relay and two public relays.
NumProxies == 3

\* A target URL is modelled by the set of marker substrings it contains.
Markers == {"ac=list", "ac=detail", "douban.com"}
TargetUrls == SUBSET Markers
Includes(url, sub) == sub \in url

\* Response bodies the upstreams may deliver.
Bodies ==
  { <<>>, <<" ">>, <<"{", "x">>, <<"<", "x">>, <<"{">>,
    <<"<!DOCTYPE HTML", "x">>, <<" ", "<HTML", "x">>, <<"<html", "x">>,
    <<"<!doctype html", "x">> }

Statuses == {200, 404, 500}
ResponseOk(status) == status >= 200 /\ status <= 299

NoError == [name |-> "none", message |-> "none", status |-> 0, strategy |-> 0]
MkError(n, m, st, k) == [name |-> n, message |-> m, status |-> st, strategy |-> k]

NoResult == [kind |-> "none", body |-> <<>>, err |-> NoError]
Returned(text) == [kind |-> "return", body |-> text, err |-> NoError]
Thrown(e) == [kind |-> "throw", body |-> <<>>, err |-> e]

\* text.trim().toLowerCase().startsWith('<!doctype html') || ...startsWith('<html')
IsHtmlDocumentCaseSensitive(text) ==
  StartsWith(Trim(text), "<!doctype html") \/ StartsWith(Trim(text), "<html")

IsHtmlDocument(text) ==
  StartsWith(ToLowerCase(Trim(text)), "<!doctype html")
    \/ StartsWith(ToLowerCase(Trim(text)), "<html")

\* the targets for which an HTML body is let through
HtmlAllowed(targetUrl) ==
  Includes(targetUrl, "ac=list") \/ Includes(targetUrl, "ac=detail")
    \/ Includes(targetUrl, "douban.com")

ExternalAborted == fext = "aborted"

\* Top of the for loop for strategy k with the error recorded so far: the
\* loop ends, the abort check throws, or the request of strategy k is issued.
LoopTop(k, err) ==
  IF k > NumProxies
  THEN /\ fpc' = "done"
       /\ fresult' = Thrown(IF err = NoError
                            THEN MkError("Error", "Failed to fetch", 0, 0)
                            ELSE err)
       /\ fi' = k
       /\ ftimer' = FALSE
       /\ flastError' = err
  ELSE IF fext' = "aborted"
  THEN /\ fpc' = "done"
       /\ fresult' = Thrown(MkError("Error", "Aborted", 0, 0))
       /\ fi' = k
       /\ ftimer' = FALSE
       /\ flastError' = err
  ELSE /\ fpc' = "fetching"
       /\ fresult' = NoResult
       /\ fi' = k
       /\ ftimer' = TRUE
       /\ flastError' = err

NextStrategySkipping(k) == k + 2

NextStrategy(k) == k + 1

RecordFirstError(old, e) == IF old = NoError THEN e ELSE old

RecordError(old, e) == e

\* The inner catch block (with the outer one behind it) for the error e of
\* the attempt of strategy fi.
Catch(e) ==
  IF fext' = "aborted"
  THEN /\ fpc' = "done"
       /\ fresult' = Thrown(e)
       /\ ftimer' = FALSE
       /\ UNCHANGED <<fi, flastError>>
  ELSE IF e.name = "AbortError"
  THEN LoopTop(NextStrategy(fi),
               RecordError(flastError, MkError("Error", "Request timed out", 0, fi)))
  ELSE LoopTop(NextStrategy(fi), RecordError(flastError, e))

Logged(ev, text, st) == Append(flog, [strategy |-> fi, event |-> ev, body |-> text, status |-> st])

\* fetchViaProxy(targetUrl, externalSignal) is called.
FetchCall ==
  /\ fpc = "idle"
  /\ UNCHANGED <<ftarget, fext, fany, flog>>
  /\ LoopTop(1, NoError)
  /\ UNCHANGED notFetch

\* fetch() resolves with a response: clearTimeout, then response.ok decides.
FetchResolves(status) ==
  /\ fpc = "fetching"
  /\ UNCHANGED <<ftarget, fext, fany>>
  /\ IF ResponseOk(status)
     THEN /\ fpc' = "reading"
          /\ ftimer' = FALSE
          /\ UNCHANGED <<fi, flastError, fresult, flog>>
     ELSE /\ flog' = Logged("status", <<>>, status)
          /\ Catch(MkError("Error", "HTTP status", status, fi))
  /\ UNCHANGED notFetch

\* fetch() rejects: transport failure.
FetchRejects ==
  /\ fpc = "fetching"
  /\ UNCHANGED <<ftarget, fext, fany>>
  /\ flog' = Logged("network", <<>>, 0)
  /\ Catch(MkError("TypeError", "Failed to fetch", 0, fi))
  /\ UNCHANGED notFetch

\* the per-attempt timer fires: controller.abort() rejects the pending fetch.
TimeoutFires ==
  /\ fpc = "fetching"
  /\ ftimer
  /\ UNCHANGED <<ftarget, fext, fany>>
  /\ flog' = Logged("timeout", <<>>, 0)
  /\ Catch(MkError("AbortError", "signal is aborted", 0, fi))
  /\ UNCHANGED notFetch

\* response.text() resolves.
BodyArrives(text) ==
  /\ fpc = "reading"
  /\ UNCHANGED <<ftarget, fext, fany>>
  /\ flog' = Logged("body", text, 200)
  /\ IF Len(Trim(text)) > 0
     THEN IF IsHtmlDocument(text) /\ ~HtmlAllowed(ftarget)
          THEN Catch(MkError("Error", "Proxy returned HTML instead of data", 0, fi))
          ELSE /\ fpc' = "done"
               /\ fresult' = Returned(text)
               /\ UNCHANGED <<fi, ftimer, flastError>>
     ELSE Catch(MkError("Error", "HTTP status", 200, fi))
  /\ UNCHANGED notFetch

\* response.text() rejects: the connection broke while the body was read.
BodyFails ==
  /\ fpc = "reading"
  /\ UNCHANGED <<ftarget, fext, fany>>
  /\ flog' = Logged("bodyfail", <<>>, 200)
  /\ Catch(MkError("TypeError", "network error", 0, fi))
  /\ UNCHANGED notFetch

\* The caller aborts the external signal.  With AbortSignal.any the pending
\* fetch or body read rejects with an AbortError; without it the request
\* only watches the per-attempt controller and goes on.
ExternalAbort ==
  /\ fext = "live"
  /\ fpc # "done"
  /\ fext' = "aborted"
  /\ UNCHANGED <<ftarget, fany>>
  /\ IF fany /\ fpc \in {"fetching", "reading"}
     THEN /\ flog' = Logged("aborted", <<>>, 0)
          /\ Catch(MkError("AbortError", "signal is aborted", 0, fi))
     ELSE UNCHANGED <<fpc, fi, ftimer, flastError, fresult, flog>>
  /\ UNCHANGED notFetch

(***************************************************************************)
(* searchVideos: what the caller of fetchViaProxy makes of its outcome.    *)
(***************************************************************************)
\* JSON.parse succeeds on a complete object only
JsonParses(text) == Trim(text) = <<"{", "x">>

\* the <video> elements parseMacCMSXml finds
XmlHasVideos(text) == Trim(text) = <<"<", "x">>

SearchVideos(outcome) ==
  IF outcome.kind = "return"
  THEN IF StartsWith(Trim(outcome.body), "{")
       THEN IF JsonParses(outcome.body)
            THEN [kind |-> "return", list |-> "videos"]
            ELSE [kind |-> "return", list |-> "empty"]
       ELSE IF XmlHasVideos(outcome.body)
            THEN [kind |-> "return", list |-> "videos"]
            ELSE [kind |-> "return", list |-> "empty"]
  ELSE IF outcome.err.name = "AbortError"
       THEN [kind |-> "throw", list |-> "none"]
       ELSE [kind |-> "return", list |-> "empty"]

(***************************************************************************)
(* Properties of fetchViaProxy                                             *)
(***************************************************************************)
FetchReturned == fpc = "done" /\ fresult.kind = "return"
FetchThrew == fpc = "done" /\ fresult.kind = "throw"

\* a body that starts, after leading white space and in any letter case,
\* with an HTML document prefix
BeginsWithHtmlPrefix(text) ==
  /\ Trim(text) # <<>>
  /\ Head(Trim(text)) \in {"<!doctype html", "<!DOCTYPE HTML", "<html", "<HTML"}

NonEmptyBody(entry) == entry.event = "body" /\ Trim(entry.body) # <<>>

\* an attempt that delivered data when every HTML page is an error page
DeliversData(entry) == NonEmptyBody(entry) /\ ~BeginsWithHtmlPrefix(entry.body)

\* an attempt that delivered data when HTML is let through for the targets
\* that contain ac=list, ac=detail or douban.com
DeliversAccepted(entry) ==
  /\ NonEmptyBody(entry)
  /\ BeginsWithHtmlPrefix(entry.body) =>
       ("ac=list" \in ftarget \/ "ac=detail" \in ftarget \/ "douban.com" \in ftarget)

FailureOf(entry, e) ==
  CASE entry.event = "timeout" -> e.name = "Error" /\ e.message = "Request timed out"
    [] entry.event = "network" -> e.name = "TypeError"
    [] entry.event = "bodyfail" -> e.name = "TypeError"
    [] entry.event = "status" -> e.message = "HTTP status" /\ e.status = entry.status
    [] entry.event = "body" /\ Trim(entry.body) = <<>> ->
         e.message = "HTTP status" /\ e.status = 200
    [] entry.event = "body" /\ Trim(entry.body) # <<>> ->
         e.message = "Proxy returned HTML instead of data"
    [] OTHER -> FALSE

AllStrategiesFailed ==
  /\ FetchThrew
  /\ Len(flog) = NumProxies
  /\ \A j \in 1..Len(flog) : flog[j].event # "aborted"
  /\ fext # "aborted"

\* C5: when every strategy has failed, the error thrown is the failure of
\* the last strategy, whatever the failure kinds were.
C5_LastFailureThrown ==
  AllStrategiesFailed =>
    /\ fresult.err.strategy = NumProxies
    /\ FailureOf(flog[NumProxies], fresult.err)

\* three different failure kinds, the last one a rejected HTML page
C5_Witness ==
  /\ AllStrategiesFailed
  /\ flog[1].event = "timeout"
  /\ flog[2].event = "status"
  /\ flog[3].event = "body" /\ BeginsWithHtmlPrefix(flog[3].body)

\* C6: once the external signal is aborted the call ends with an AbortError,
\* which searchVideos rethrows instead of returning an empty list.
C6_CancellationDistinct ==
  (fpc = "done" /\ fext = "aborted") =>
    /\ fresult.kind = "throw"
    /\ fresult.err.name = "AbortError"
    /\ SearchVideos(fresult).kind = "throw"

\* C7: every call eventually returns or throws.
C7_CallTerminates == <>(fpc = "done")

MaxRuns == 2

\* the `sources` prop, in list order, and the current source
SourceList == <<"A", "B">>
SourceApis == {SourceList[k] : k \in 1..Len(SourceList)}
SourceName(api) == IF api = "A" THEN "Alpha" ELSE "Beta"
CurrentSourceApi == "A"

Queries == {"q1", "q2"}

ShortImage == <<"p">>
LongImage(api) == <<"h", "t", "t", "p", ":", "/", "/", api, "/", "1">>

RawMovie(i, t, y, img) == [id |-> i, title |-> t, year |-> y, image |-> img]

\* what searchVideos(api, query) yields when the source answers
Response(api, query) ==
  IF api = "A"
  THEN << RawMovie(<<query, "1">>, <<"I", "n">>, "", ShortImage),
          RawMovie(<<query, "3">>, <<>>, "1999", <<>>) >>
  ELSE << RawMovie(<<query, "2">>, <<"i", "n", " ">>, "2010", LongImage("B")),
          RawMovie(<<query, "4">>, <<"T">>, "", <<>>) >>

SourceEntry(api, name, vodId) == [api |-> api, name |-> name, vodId |-> vodId]

\* (data || []).filter(m => m && m.title).map(m => ({...m, sourceApi, sourceName}))
TagResults(data, api) ==
  LET titled == SelectSeq(data, LAMBDA m : m.title # <<>>)
  IN [k \in 1..Len(titled) |->
        [id |-> titled[k].id, title |-> titled[k].title, year |-> titled[k].year,
         image |-> titled[k].image, sourceApi |-> api, sourceName |-> SourceName(api),
         availableSources |-> <<>>]]

\* a key that keeps case and surrounding blanks
TitleKeyExact(title) == title

TitleKey(title) == ToLowerCase(Trim(title))

RECURSIVE FindGroup(_, _, _)
\* the position of the canonical record with this key, 0 when the key is new
FindGroup(groups, key, k) ==
  IF k > Len(groups) THEN 0
  ELSE IF TitleKey(groups[k].title) = key THEN k
  ELSE FindGroup(groups, key, k + 1)

\* a test that never finds the api
HasApiNowhere(avail, api) == FALSE

HasApi(avail, api) == \E k \in 1..Len(avail) : avail[k].api = api

\* a merge in which a later match overwrites year and poster
MergeItemOverwriting(groups, item) ==
  LET g == FindGroup(groups, TitleKey(item.title), 1) IN
  IF g # 0
  THEN LET existing == groups[g]
           avail == IF ~HasApi(existing.availableSources, item.sourceApi)
                    THEN Append(existing.availableSources,
                                SourceEntry(item.sourceApi, item.sourceName, item.id))
                    ELSE existing.availableSources
           yr == IF item.year # "" THEN item.year ELSE existing.year
           img == IF item.image # <<>> THEN item.image ELSE existing.image
       IN [groups EXCEPT ![g] =
             [existing EXCEPT !.availableSources = avail, !.year = yr, !.image = img]]
  ELSE Append(groups,
              [item EXCEPT !.availableSources =
                 <<SourceEntry(item.sourceApi, item.sourceName, item.id)>>])

\* one iteration of flatResults.forEach in the merge
MergeItem(groups, item) ==
  LET g == FindGroup(groups, TitleKey(item.title), 1) IN
  IF g # 0
  THEN LET existing == groups[g]
           avail == IF item.sourceApi # "" /\ item.sourceName # ""
                       /\ ~HasApi(existing.availableSources, item.sourceApi)
                    THEN Append(existing.availableSources,
                                SourceEntry(item.sourceApi, item.sourceName, item.id))
                    ELSE existing.availableSources
           yr == IF existing.year = "" /\ item.year # "" THEN item.year ELSE existing.year
           img == IF (existing.image = <<>> \/ Len(existing.image) < 10) /\ item.image # <<>>
                  THEN item.image ELSE existing.image
       IN [groups EXCEPT ![g] =
             [existing EXCEPT !.availableSources = avail, !.year = yr, !.image = img]]
  ELSE Append(groups,
              [item EXCEPT !.availableSources =
                 <<SourceEntry(item.sourceApi, item.sourceName, item.id)>>])

RECURSIVE MergeFrom(_, _)
MergeFrom(groups, flat) ==
  IF flat = <<>> THEN groups ELSE MergeFrom(MergeItem(groups, Head(flat)), Tail(flat))

\* Array.from(resultGroup.values()) for the flat result list
MergeResults(flat) == MergeFrom(<<>>, flat)

\* a per-source task: "none" (source not searched), "pending", "data"
\* (fulfilled with the source's records), "failed" (fulfilled with []) or
\* "rejected" (AbortError rethrown)
TaskStates == {"none", "pending", "data", "failed", "rejected"}

\* the value Promise.allSettled reports for a task
TaskValue(run, api) ==
  IF run.tasks[api] = "data" THEN TagResults(Response(api, run.query), api) ELSE <<>>

\* Promise.all over tasks that let a failure through: one failed source
\* fails the whole query
RECURSIVE FlatAllOrNothing(_, _)
FlatAllOrNothing(run, k) ==
  IF \E api \in SourceApis : run.tasks[api] \in {"failed", "rejected"} THEN <<>>
  ELSE IF k > Len(SourceList) THEN <<>>
  ELSE TaskValue(run, SourceList[k]) \o FlatAllOrNothing(run, k + 1)

RECURSIVE FlatFrom(_, _)
\* taskResults.forEach(... flatResults.push(...result.value)) in task order
FlatFrom(run, k) ==
  IF k > Len(SourceList) THEN <<>>
  ELSE TaskValue(run, SourceList[k]) \o FlatFrom(run, k + 1)

AnySettled(run) == \E api \in SourceApis : run.tasks[api] \notin {"none", "pending"}

\* await Promise.allSettled(searchTasks) is over
AllSettled(run) == \A api \in SourceApis : run.tasks[api] # "pending"

IgnoreAbort(run) == TRUE

\* if (signal.aborted) return;
SignalLive(run) == ~run.aborted

NoTasks == [api \in SourceApis |-> "none"]

\* what the run under way published, until the inputs change: the settled
\* tasks it merged and the list it handed to onStateUpdate
NoPub == [run |-> 0, query |-> "", tasks |-> NoTasks, results |-> <<>>]

InitialSearchState ==
  [results |-> <<>>, query |-> "", isAggregate |-> FALSE, selected |-> {},
   loading |-> FALSE, hasSearched |-> FALSE]

NoTimer == [set |-> FALSE, query |-> "", isAggregate |-> FALSE, selected |-> {}]

\* abortControllerRef.current.abort(); aborting the controller of a run
\* that has ended is not observable and leaves its record as it is
AbortCurrent(runs) ==
  IF sctrl = 0 \/ runs[sctrl].done THEN runs ELSE [runs EXCEPT ![sctrl].aborted = TRUE]

\* every run still under way belongs to an earlier query from now on
Supersede(runs) ==
  [k \in 1..Len(runs) |-> IF runs[k].done THEN runs[k]
                          ELSE [runs[k] EXCEPT !.superseded = TRUE]]

\* the record kept of a run that has ended
Ended(run, pub) ==
  [run EXCEPT !.done = TRUE, !.published = pub, !.tasks = NoTasks, !.query = "",
              !.hadData = \E api \in DOMAIN run.tasks : run.tasks[api] = "data"]

\* an effect that starts no search while one is loading
EffectTimerUnlessLoading(q, sv) ==
  IF q = "" \/ sv.loading \/ (q = sv.query /\ sv.hasSearched)
  THEN NoTimer
  ELSE [set |-> TRUE, query |-> q, isAggregate |-> sv.isAggregate, selected |-> sv.selected]

\* the effect body: the guards, then setTimeout(doSearch, 300) with the
\* props of this render in its closure
EffectTimer(q, sv) ==
  IF q = "" \/ (q = sv.query /\ sv.hasSearched /\ ~sv.loading)
  THEN NoTimer
  ELSE [set |-> TRUE, query |-> q, isAggregate |-> sv.isAggregate, selected |-> sv.selected]

\* the effect's cleanup followed by the effect body for the new props
RunEffect(mounted, q, sv) ==
  /\ sruns' = Supersede(IF mounted THEN AbortCurrent(sruns) ELSE sruns)
  /\ stimer' = EffectTimer(q, sv)
  /\ spub' = NoPub

\* App.handleSearch(query, autoAggregate): a query is submitted from the
\* header or the home view, and the search view is shown.
HandleSearch(q, autoAggregate) ==
  LET sel == IF autoAggregate THEN SourceApis
             ELSE IF saved.selected = {} THEN {CurrentSourceApi}
             ELSE saved.selected
      next == [saved EXCEPT !.query = q, !.hasSearched = FALSE,
                            !.isAggregate = autoAggregate \/ saved.isAggregate,
                            !.selected = sel]
  IN /\ squery' = q
     /\ saved' = next
     /\ smounted' = TRUE
     /\ RunEffect(smounted, q, next)
     /\ UNCHANGED sctrl
     /\ UNCHANGED notSearch

ToggledSelection(api) ==
  IF Cardinality(saved.selected) = Len(SourceList)
  THEN {api}
  ELSE IF api \in saved.selected THEN saved.selected \ {api}
  ELSE saved.selected \cup {api}

ToggleSourceSelection(api) ==
  LET next == [saved EXCEPT !.selected = ToggledSelection(api), !.hasSearched = FALSE,
                            !.isAggregate = TRUE]
  IN /\ smounted
     /\ saved' = next
     /\ RunEffect(TRUE, squery, next)
     /\ UNCHANGED <<smounted, squery, sctrl>>
     /\ UNCHANGED notSearch

ToggleAllSources ==
  LET next == [saved EXCEPT !.selected = IF saved.selected = SourceApis THEN {}
                                         ELSE SourceApis,
                            !.hasSearched = FALSE, !.isAggregate = TRUE]
  IN /\ smounted
     /\ saved' = next
     /\ RunEffect(TRUE, squery, next)
     /\ UNCHANGED <<smounted, squery, sctrl>>
     /\ UNCHANGED notSearch

ToggleAggregateMode ==
  LET next == [saved EXCEPT !.isAggregate = ~saved.isAggregate, !.hasSearched = FALSE]
  IN /\ smounted
     /\ saved' = next
     /\ RunEffect(TRUE, squery, next)
     /\ UNCHANGED <<smounted, squery, sctrl>>
     /\ UNCHANGED notSearch

\* the view is left (a movie is opened, or back to the home view): the
\* effect's cleanup runs on unmount
LeaveSearchView ==
  /\ smounted
  /\ smounted' = FALSE
  /\ stimer' = NoTimer
  /\ sruns' = AbortCurrent(sruns)
  /\ UNCHANGED <<squery, saved, sctrl, spub>>
  /\ UNCHANGED notSearch

\* back from the player: the view mounts again with the state App kept
ReturnToSearchView ==
  /\ ~smounted
  /\ smounted' = TRUE
  /\ stimer' = EffectTimer(squery, saved)
  /\ UNCHANGED <<squery, saved, sctrl, sruns, spub>>
  /\ UNCHANGED notSearch

NewRun(q, targets) ==
  [query |-> q, aborted |-> FALSE, superseded |-> FALSE, done |-> FALSE,
   published |-> FALSE, hadData |-> FALSE, searched |-> targets # {},
   tasks |-> [api \in SourceApis |-> IF api \in targets THEN "pending" ELSE "none"]]

\* an early return that publishes nothing
LeftLoading(sv, q) == [sv EXCEPT !.loading = TRUE, !.query = q]

\* onStateUpdate({ loading: false, results: [], hasSearched: true }) after
\* onStateUpdate({ loading: true, query })
EmptyResultState(sv, q) ==
  [sv EXCEPT !.loading = FALSE, !.results = <<>>, !.hasSearched = TRUE, !.query = q]

\* the debounce timer fires: doSearch up to its first await
DoSearch ==
  LET targetApis == IF stimer.isAggregate THEN stimer.selected ELSE {CurrentSourceApi}
      run == NewRun(stimer.query, targetApis \cap SourceApis)
      older == Supersede(AbortCurrent(sruns))
  IN /\ stimer.set
     /\ Len(sruns) < MaxRuns
     /\ stimer' = NoTimer
     /\ sctrl' = Len(sruns) + 1
     /\ IF targetApis = {}
        THEN /\ saved' = EmptyResultState(saved, stimer.query)
             /\ sruns' = Append(older, Ended(run, FALSE))
        ELSE /\ saved' = [saved EXCEPT !.loading = TRUE, !.query = stimer.query]
             /\ sruns' = Append(older, run)
     /\ spub' = NoPub
     /\ UNCHANGED <<smounted, squery>>
     /\ UNCHANGED notSearch

\* The request of one source of run r settles; when it is the last one the
\* continuation after Promise.allSettled runs in the same turn.
TaskSettles(r, api, outcome) ==
  LET settled == [sruns[r] EXCEPT !.tasks[api] = outcome] IN
  /\ r \in 1..Len(sruns)
  /\ ~sruns[r].done
  /\ sruns[r].tasks[api] = "pending"
  /\ outcome = "rejected" => sruns[r].aborted
  /\ IF ~AllSettled(settled)
     THEN /\ sruns' = [sruns EXCEPT ![r] = settled]
          /\ UNCHANGED <<saved, spub>>
     ELSE IF ~SignalLive(settled)
     THEN /\ sruns' = [sruns EXCEPT ![r] = Ended(settled, FALSE)]
          /\ UNCHANGED <<saved, spub>>
     ELSE /\ saved' = [saved EXCEPT !.results = MergeResults(FlatFrom(settled, 1)),
                                    !.loading = FALSE, !.hasSearched = TRUE]
          /\ spub' = [run |-> r, query |-> settled.query, tasks |-> settled.tasks,
                      results |-> MergeResults(FlatFrom(settled, 1))]
          /\ sruns' = [sruns EXCEPT ![r] = Ended(settled, TRUE)]
  /\ UNCHANGED <<smounted, squery, stimer, sctrl>>
  /\ UNCHANGED notSearch

(***************************************************************************)
(* The merge of doSearch over the responses of several sources             *)
(***************************************************************************)
\* the most records the sources of one query return together
MaxRecords == 3

\* the `sources` prop of an aggregate search, in list order
MergeSources == <<"A", "B", "C">>
MergeApis == {MergeSources[k] : k \in 1..Len(MergeSources)}

Titles == {<<"I", "n">>, <<"i", "n", " ">>, <<"T">>}

\* year and poster of a record: none, a year with a short poster string,
\* another year with a poster URL
RecordMetas == {"bare", "short", "full"}
\* the first title comes with each of the three, its other spelling bare or
\* with year and poster URL, the other title bare
RecordKinds ==
  {k \in [title : Titles, meta : RecordMetas] :
     \/ k.title = <<"I", "n">>
     \/ k.meta = "bare"
     \/ (k.title = <<"i", "n", " ">> /\ k.meta = "full")}

\* the k-th record of the response of source api
RecordOf(api, k, kind) ==
  RawMovie(<<api, k>>, kind.title,
           CASE kind.meta = "bare" -> "" [] kind.meta = "short" -> "1999" [] OTHER -> "2010",
           CASE kind.meta = "bare" -> <<>> [] kind.meta = "short" -> ShortImage
             [] OTHER -> LongImage(api))

ResponsesOfLength(api, n) ==
  {[k \in 1..n |-> RecordOf(api, k, kinds[k])] : kinds \in [1..n -> RecordKinds]}

\* Promise.allSettled reports the tasks in the order they arrived
SettledInArrivalOrder(sel, arrival) == arrival

\* Promise.allSettled(searchTasks): the outcomes in the order of the tasks,
\* which is that of sources.filter(s => targetApis.includes(s.api))
SettledOrder(sel, arrival) == SelectSeq(MergeSources, LAMBDA api : api \in sel)

RECURSIVE FlatOf(_, _)
\* flatResults.push(...result.value) over the settled tasks
FlatOf(resp, order) ==
  IF order = <<>> THEN <<>>
  ELSE TagResults(resp[Head(order)], Head(order)) \o FlatOf(resp, Tail(order))

\* the list handed to onStateUpdate
MergedFor(resp, sel, arrival) == MergeResults(FlatOf(resp, SettledOrder(sel, arrival)))

\* the request of one selected source settles; after the last one the
\* continuation merges and publishes
ResponseArrives(api) ==
  LET arrived == Append(marrived, api) IN
  /\ api \in msel
  /\ \A k \in 1..Len(marrived) : marrived[k] # api
  /\ marrived' = arrived
  /\ IF Len(arrived) = Cardinality(msel)
     THEN /\ mresults' = MergedFor(mresp, msel, arrived)
          /\ mdone' = TRUE
     ELSE UNCHANGED <<mresults, mdone>>
  /\ UNCHANGED <<msel, mresp>>
  /\ UNCHANGED notMerge

(***************************************************************************)
(* parsePlayUrl                                                            *)
(***************************************************************************)
\* the most quality groups of a vod_play_url, the most episodes of a group
MaxGroups == 2
MaxEpisodes == 2

\* A string is a sequence of tokens: "$", "#", " " and "n" are single
\* characters, the others are runs of characters with none of "$", "#", " ".
HttpHost == "http://h/a"
BareHost == "//h/a"

\* the episode texts a source writes between two '#'
EpisodeTexts ==
  { <<>>,
    <<" ">>,
    <<"n", "$", HttpHost, ".m3u8">>,
    <<" ", HttpHost, ".mp4", " ">>,
    <<"n", "$", BareHost, ".m3u8">>,
    <<"n", " ", "$", " ", HttpHost>>,
    <<"n", "$", "n", ".m3u8">>,
    <<"n", "$", HttpHost, ".mp4">> }

RECURSIVE Join(_, _)
\* parts.join(sep)
Join(parts, sep) ==
  IF parts = <<>> THEN <<>>
  ELSE IF Len(parts) = 1 THEN parts[1]
  ELSE parts[1] \o sep \o Join(Tail(parts), sep)

\* the vod_play_url of a list of groups, each a list of episode texts
PlayUrlOf(groups) ==
  Join([g \in 1..Len(groups) |-> Join(groups[g], <<"#">>)], <<"$", "$", "$">>)

GroupsOfLength(n) == [1..n -> EpisodeTexts]
GroupLists ==
  UNION {[1..g -> UNION {GroupsOfLength(n) : n \in 1..MaxEpisodes}] : g \in 1..MaxGroups}

\* s.indexOf(sep), counted from 1; 0 when sep does not occur
IndexOfSeq(s, sep) ==
  LET hits == {k \in 1..(Len(s) - Len(sep) + 1) : SubSeq(s, k, k + Len(sep) - 1) = sep}
  IN IF hits = {} THEN 0 ELSE CHOOSE k \in hits : \A j \in hits : k <= j

RECURSIVE Split(_, _)
\* s.split(sep)
Split(s, sep) ==
  LET k == IndexOfSeq(s, sep)
  IN IF k = 0 THEN <<s>>
     ELSE <<SubSeq(s, 1, k - 1)>> \o Split(SubSeq(s, k + Len(sep), Len(s)), sep)

\* let name = '\u6b63\u7247' (the default episode name, "feature")
DefaultName == <<"feature">>

NoEpisode == [name |-> <<>>, url |-> <<>>]

\* the callback of rawList.split('#').map: null is NoEpisode
ParseEpisode(ep) ==
  LET trimmed == Trim(ep)
      splitIdx == IndexOfSeq(trimmed, <<"$">>)
      name == IF splitIdx > 0 THEN SubSeq(trimmed, 1, splitIdx - 1) ELSE DefaultName
      raw == IF splitIdx > 0 THEN SubSeq(trimmed, splitIdx + 1, Len(trimmed)) ELSE trimmed
      url == Trim(raw)
  IN IF trimmed = <<>> THEN NoEpisode
     ELSE [name |-> Trim(name),
           url |-> IF url # <<>> /\ Head(url) = BareHost THEN <<"https:">> \o url ELSE url]

\* !!item && !!item.url && (item.url.startsWith('http') || ...('https'))
IsPlayable(item) ==
  item # NoEpisode /\ item.url # <<>> /\ Head(item.url) \in {HttpHost, "https:"}

\* one element of candidates
ParseGroup(rawList) ==
  LET eps == Split(rawList, <<"#">>)
  IN SelectSeq([k \in 1..Len(eps) |-> ParseEpisode(eps[k])], IsPlayable)

Candidates(urlStr) ==
  LET playerRawLists == Split(urlStr, <<"$", "$", "$">>)
  IN [g \in 1..Len(playerRawLists) |-> ParseGroup(playerRawLists[g])]

\* list.some(ep => ep.url.includes(ext))
SomeIncludes(list, ext) ==
  \E k \in 1..Len(list) : \E j \in 1..Len(list[k].url) : list[k].url[j] = ext

\* the position candidates.find(...) stops at, 0 for undefined
FindWith(cands, ext) ==
  LET hits == {g \in 1..Len(cands) : SomeIncludes(cands[g], ext)}
  IN IF hits = {} THEN 0 ELSE CHOOSE g \in hits : \A j \in hits : g <= j

FindNonEmpty(cands) ==
  LET hits == {g \in 1..Len(cands) : cands[g] # <<>>}
  IN IF hits = {} THEN 0 ELSE CHOOSE g \in hits : \A j \in hits : g <= j

\* a choice that takes the first group with any episode
BestListFirstFound(cands) ==
  IF FindNonEmpty(cands) # 0 THEN cands[FindNonEmpty(cands)] ELSE <<>>

\* bestList || []
BestList(cands) ==
  IF FindWith(cands, ".m3u8") # 0 THEN cands[FindWith(cands, ".m3u8")]
  ELSE IF FindWith(cands, ".mp4") # 0 THEN cands[FindWith(cands, ".mp4")]
  ELSE IF FindNonEmpty(cands) # 0 THEN cands[FindNonEmpty(cands)]
  ELSE <<>>

ParsePlayUrl(urlStr) == IF urlStr = <<>> THEN <<>> ELSE BestList(Candidates(urlStr))

\* parsePlayUrl(data.vod_play_url || '') is called
ParseCall ==
  /\ ~udone
  /\ ubest' = ParsePlayUrl(ustr)
  /\ udone' = TRUE
  /\ UNCHANGED <<ugroups, ustr>>
  /\ UNCHANGED notParse

(***************************************************************************)
(* Properties of the search view                                           *)
(***************************************************************************)
RunIds == 1..Len(sruns)

\* run r publishes its result list in this step
Publishes(r) == r \in RunIds /\ sruns'[r].published /\ ~sruns[r].published

\* run r is started or finished in this step
StartsOrEnds(r) == r \in 1..Len(sruns') /\ (r \notin RunIds \/ (sruns'[r].done /\ ~sruns[r].done))

C2_PublishAfterAllSettle ==
  [][ /\ \A r \in RunIds : Publishes(r) =>
           /\ spub'.run = r
           /\ \A api \in SourceApis : spub'.tasks[api] # "pending"
           /\ \A api \in SourceApis : sruns[r].tasks[api] # "none" => spub'.tasks[api] # "none"
           /\ saved'.results = spub'.results
      /\ \A r \in RunIds :
           (\E api \in SourceApis : sruns'[r].tasks[api] = "pending") =>
             (~sruns'[r].published /\ (saved'.results # saved.results => \E o \in 1..Len(sruns') : o # r /\ StartsOrEnds(o))) ]_vars

\* both sources of an aggregate run answered with data and the run published
C2_Witness ==
  /\ spub.run # 0
  /\ \A api \in SourceApis : spub.tasks[api] = "data"
  /\ saved.results = spub.results
  /\ Len(saved.results) = 2

InResults(results, api, title) ==
  \E k \in 1..Len(results) :
    /\ TitleKey(results[k].title) = TitleKey(title)
    /\ \E a \in 1..Len(results[k].availableSources) :
          results[k].availableSources[a].api = api

\* C3: a source whose request failed contributes nothing, and every titled
\* record of every source that answered is in the published list whatever
\* the other sources did; a live run whose tasks have all settled publishes.
C3_FailureIsolated ==
  /\ spub.run # 0 =>
       \A api \in SourceApis :
         /\ spub.tasks[api] = "data" =>
              \A k \in 1..Len(Response(api, spub.query)) :
                 Response(api, spub.query)[k].title # <<>> =>
                   InResults(spub.results, api, Response(api, spub.query)[k].title)
         /\ spub.tasks[api] # "data" =>
              \A k \in 1..Len(spub.results) :
                 \A a \in 1..Len(spub.results[k].availableSources) :
                    spub.results[k].availableSources[a].api # api
  /\ \A r \in RunIds :
       (sruns[r].done /\ sruns[r].searched /\ ~sruns[r].aborted) => sruns[r].published
  /\ spub.run # 0 => (spub.run = sctrl /\ saved.results = spub.results /\ ~saved.loading)

\* one source failed, the other one's records were published
C3_Witness ==
  /\ spub.run # 0
  /\ \E api \in SourceApis : spub.tasks[api] = "failed"
  /\ \E api \in SourceApis : spub.tasks[api] = "data"
  /\ saved.results = spub.results
  /\ saved.results # <<>>
  /\ ~saved.loading


(***************************************************************************)
(* fetchAndCleanM3u8: the playlist sanitizer                               *)
(***************************************************************************)
\* the longest playlist the origin serves, in lines
MaxLines == 4

\* depth > 3 is a redirect loop
MaxDepth == 3

\* A URI: absolute with its own host, or relative to the playlist's URL.
Uri(a, h, d, f) == [abs |-> a, host |-> h, dir |-> d, file |-> f]
NoUri == Uri(FALSE, "", <<>>, "")

\* A playlist line: its tag ("" when the line is no tag or comment), the
\* URI it carries, the BANDWIDTH attribute of a stream tag, and whether
\* white space surrounds the text; avg is the AVERAGE-BANDWIDTH attribute of
\* a stream tag that has it written before BANDWIDTH (0 otherwise).
Line(t, u, b, p) == [tag |-> t, uri |-> u, bw |-> b, pad |-> p, avg |-> 0]

\* new URL(p, b).href
ToAbsolute(p, b) ==
  IF p.abs THEN p ELSE Uri(TRUE, b.host, b.dir \o p.dir, p.file)

\* the prefixes a line's text is tested for
Prefixes(tag) ==
  CASE tag = "#EXTINF" -> {"#", "#EXT", "#EXTINF"}
    [] tag = "#EXT-X-BYTERANGE" -> {"#", "#EXT", "#EXT-X-BYTERANGE"}
    [] tag = "#EXT-X-KEY" -> {"#", "#EXT", "#EXT-X-KEY"}
    [] tag = "#EXT-X-DISCONTINUITY" -> {"#", "#EXT", "#EXT-X-DISCONTINUITY"}
    [] tag = "#EXT-X-DISCONTINUITY-SEQUENCE" -> {"#", "#EXT", "#EXT-X-DISCONTINUITY"}
    [] tag = "#EXT-X-STREAM-INF" -> {"#", "#EXT", "#EXT-X-STREAM-INF"}
    [] tag = "#EXTM3U" -> {"#", "#EXT"}
    [] tag = "#EXT-X-VERSION" -> {"#", "#EXT"}
    [] tag = "#EXT-X-TARGETDURATION" -> {"#", "#EXT"}
    [] tag = "#EXT-X-MEDIA-SEQUENCE" -> {"#", "#EXT"}
    [] tag = "#EXT-X-ENDLIST" -> {"#", "#EXT"}
    [] tag = "# ad" -> {"#"}
    [] OTHER -> {}

\* line.trim().startsWith(prefix)
LineStartsWith(l, prefix) == prefix \in Prefixes(l.tag)

\* !trimmed
IsBlankLine(l) == l.tag = "" /\ l.uri = NoUri

\* a non-empty line that does not start with '#'
IsUriLine(l) == l.tag = "" /\ l.uri # NoUri

\* hostname + '|' + pathname without the file name
Fingerprint(u) == <<u.host, u.dir>>

\* segments: the line numbers of the URI lines, in order
RECURSIVE SegmentsFrom(_, _)
SegmentsFrom(lines, k) ==
  IF k > Len(lines) THEN <<>>
  ELSE IF IsUriLine(lines[k]) THEN <<k>> \o SegmentsFrom(lines, k + 1)
  ELSE SegmentsFrom(lines, k + 1)

SegFp(lines, base, idx) == Fingerprint(ToAbsolute(lines[idx].uri, base))

\* fingerprintCounts[fp]
FpCount(lines, base, segs, fp) ==
  Cardinality({k \in 1..Len(segs) : SegFp(lines, base, segs[k]) = fp})

\* the loop over Object.entries(fingerprintCounts), which lists the
\* fingerprints in the order of their first segment: [fp, count] of the
\* first fingerprint whose count exceeds all before it
RECURSIVE DominantFrom(_, _, _, _, _)
DominantFrom(lines, base, segs, k, best) ==
  IF k > Len(segs) THEN best
  ELSE LET fp == SegFp(lines, base, segs[k])
           c == FpCount(lines, base, segs, fp)
       IN IF c > best.count
          THEN DominantFrom(lines, base, segs, k + 1, [fp |-> fp, count |-> c])
          ELSE DominantFrom(lines, base, segs, k + 1, best)

\* a loop that lists the fingerprints from the last one to the first
DominantOfLast(lines, base, segs) ==
  DominantFrom(lines, base, [k \in 1..Len(segs) |-> segs[Len(segs) + 1 - k]], 1,
               [fp |-> <<"", <<>>>>, count |-> 0])

Dominant(lines, base, segs) ==
  DominantFrom(lines, base, segs, 1, [fp |-> <<"", <<>>>>, count |-> 0])

LowThresholdTest(maxC, n) == 5 * maxC < n

\* (maxC / segments.length) < 0.4
BelowThreshold(maxC, n) == 5 * maxC < 2 * n

\* a test that takes every directive for the metadata of a segment
IsAnyDirective(l) == LineStartsWith(l, "#EXT")

IsMetadataLine(l) ==
  \/ LineStartsWith(l, "#EXTINF")
  \/ LineStartsWith(l, "#EXT-X-BYTERANGE")
  \/ LineStartsWith(l, "#EXT-X-KEY")
  \/ LineStartsWith(l, "#EXT-X-DISCONTINUITY")

\* a walk that also swallows the lines it should stop at
TraceStepGreedy(l) ==
  IF IsMetadataLine(l) THEN "remove"
  ELSE IF ~LineStartsWith(l, "#EXT") /\ LineStartsWith(l, "#") THEN "skip"
  ELSE IF IsBlankLine(l) THEN "skip"
  ELSE "remove"

\* the if / else-if chain inside the while loop: a metadata tag is removed,
\* a plain comment or an empty line is passed over, any other line (another
\* segment, any other #EXT tag) ends the walk
TraceStep(l) ==
  IF IsMetadataLine(l) THEN "remove"
  ELSE IF ~LineStartsWith(l, "#EXT") /\ LineStartsWith(l, "#") THEN "skip"
  ELSE IF IsBlankLine(l) THEN "skip"
  ELSE "break"

\* the while loop that walks back from line j and collects the metadata of
\* a removed segment
RECURSIVE TraceBack(_, _, _)
TraceBack(lines, j, acc) ==
  IF j < 1 THEN acc
  ELSE IF TraceStep(lines[j]) = "remove" THEN TraceBack(lines, j - 1, acc \cup {j})
  ELSE IF TraceStep(lines[j]) = "skip" THEN TraceBack(lines, j - 1, acc)
  ELSE acc

\* seg.fp !== dominantFp
IsMinority(fp, domFp) == fp # domFp

\* linesToRemove
RECURSIVE LinesToRemoveFrom(_, _, _, _, _)
LinesToRemoveFrom(lines, base, segs, k, domFp) ==
  IF k > Len(segs) THEN {}
  ELSE (IF IsMinority(SegFp(lines, base, segs[k]), domFp)
        THEN TraceBack(lines, segs[k] - 1, {segs[k]})
        ELSE {})
       \cup LinesToRemoveFrom(lines, base, segs, k + 1, domFp)

\* one line of the rebuilt playlist
RebuiltLine(l, base) ==
  IF l.tag # ""
  THEN IF LineStartsWith(l, "#EXT-X-KEY") /\ l.uri # NoUri
       THEN [l EXCEPT !.uri = ToAbsolute(l.uri, base), !.pad = FALSE]
       ELSE [l EXCEPT !.pad = FALSE]
  ELSE [l EXCEPT !.uri = ToAbsolute(l.uri, base), !.pad = FALSE]

RECURSIVE RebuildFrom(_, _, _, _)
\* newLines
RebuildFrom(lines, base, removed, k) ==
  IF k > Len(lines) THEN <<>>
  ELSE IF k \in removed \/ IsBlankLine(lines[k]) THEN RebuildFrom(lines, base, removed, k + 1)
  ELSE <<RebuiltLine(lines[k], base)>> \o RebuildFrom(lines, base, removed, k + 1)

CleanResult(c, n, rm) ==
  [kind |-> "return", content |-> c, removedCount |-> n, removed |-> rm, err |-> "none"]
CleanThrown(e) ==
  [kind |-> "throw", content |-> <<>>, removedCount |-> 0, removed |-> {}, err |-> e]
NoCleanResult ==
  [kind |-> "none", content |-> <<>>, removedCount |-> 0, removed |-> {}, err |-> "none"]

\* a count that ignores the depth
RemovedCountPlain(n, maxC, depth) == n - maxC

\* removedCount: depth > 0 ? (removedCount + 1) : removedCount
RemovedCount(n, maxC, depth) == IF depth > 0 THEN n - maxC + 1 ELSE n - maxC

\* steps 3 to 5 for a playlist that is not followed as a master playlist
CleanMedia(lines, base, depth) ==
  LET segs == SegmentsFrom(lines, 1)
      dom == Dominant(lines, base, segs)
      removed == LinesToRemoveFrom(lines, base, segs, 1, dom.fp)
  IN IF Len(segs) = 0 \/ BelowThreshold(dom.count, Len(segs))
     THEN CleanResult(lines, 0, {})
     ELSE CleanResult(RebuildFrom(lines, base, removed, 1),
                      RemovedCount(Len(segs), dom.count, depth),
                      removed)

\* line.includes('#EXT-X-STREAM-INF')
IncludesStreamInf(l) == l.tag = "#EXT-X-STREAM-INF"

\* originalContent.includes('#EXT-X-STREAM-INF')
IsMasterContent(lines) ==
  \E k \in 1..Len(lines) : IncludesStreamInf(lines[k])

\* lines[i].match(/BANDWIDTH=(\d+)/), 0 without a match: the leftmost
\* "BANDWIDTH=<digits>" of the line, which lies inside AVERAGE-BANDWIDTH=
\* when that attribute comes first
MatchedBandwidth(l) == IF l.avg # 0 THEN l.avg ELSE l.bw

\* the first non-empty line after line k that is no tag or comment, 0 if none
RECURSIVE NextUriLine(_, _)
NextUriLine(lines, j) ==
  IF j > Len(lines) THEN 0
  ELSE IF IsUriLine(lines[j]) THEN j
  ELSE NextUriLine(lines, j + 1)

\* the loop over the lines of a master playlist: [url, bw] of the variant
\* chosen so far (url = NoUri while bestUrl is null)
RECURSIVE BestVariantFrom(_, _, _)
BestVariantFrom(lines, k, best) ==
  IF k > Len(lines) THEN best
  ELSE IF IncludesStreamInf(lines[k]) /\ NextUriLine(lines, k + 1) # 0
       THEN LET u == lines[NextUriLine(lines, k + 1)].uri
            IN IF MatchedBandwidth(lines[k]) > best.bw
               THEN BestVariantFrom(lines, k + 1, [url |-> u, bw |-> MatchedBandwidth(lines[k])])
               ELSE IF best.url = NoUri
               THEN BestVariantFrom(lines, k + 1, [url |-> u, bw |-> best.bw])
               ELSE BestVariantFrom(lines, k + 1, best)
  ELSE BestVariantFrom(lines, k + 1, best)

BestVariant(lines) == BestVariantFrom(lines, 1, [url |-> NoUri, bw |-> -1])

\* the URL of the playlist the player asks for
StartUrl == [host |-> "h", dir |-> <<"v">>, file |-> "index.m3u8"]

\* the URL of a variant playlist, once resolved
UrlOf(u) == [host |-> u.host, dir |-> u.dir, file |-> u.file]

SegRel1 == Line("", Uri(FALSE, "", <<>>, "1.ts"), 0, FALSE)
SegRel2 == Line("", Uri(FALSE, "", <<>>, "2.ts"), 0, TRUE)
SegAd == Line("", Uri(TRUE, "ad", <<>>, "a.ts"), 0, FALSE)
SegCdn == Line("", Uri(TRUE, "cdn", <<"x">>, "c.ts"), 0, FALSE)
TagLine(t) == Line(t, NoUri, 0, FALSE)
KeyLine == Line("#EXT-X-KEY", Uri(FALSE, "", <<>>, "k.key"), 0, FALSE)
BlankLine == Line("", NoUri, 0, FALSE)
StreamInf(b) == Line("#EXT-X-STREAM-INF", NoUri, b, FALSE)
StreamInfAvg(a, b) == [StreamInf(b) EXCEPT !.avg = a]
VariantRel == Line("", Uri(FALSE, "", <<>>, "index.m3u8"), 0, FALSE)
VariantAbs == Line("", Uri(TRUE, "h2", <<"w">>, "index.m3u8"), 0, FALSE)

\* the lines of the media playlists the origin may serve
MediaLines ==
  { SegRel1, SegRel2, SegAd, SegCdn, KeyLine, BlankLine,
    TagLine("#EXTINF"), TagLine("#EXT-X-BYTERANGE"), TagLine("#EXT-X-DISCONTINUITY"),
    TagLine("#EXT-X-DISCONTINUITY-SEQUENCE"), TagLine("#EXT-X-ENDLIST"), TagLine("# ad") }

MediaDocs == UNION {[1..n -> MediaLines] : n \in 0..MaxLines}

\* ten segments in two clusters of 8 and 2, each with its #EXTINF line
RECURSIVE WithExtInf(_)
WithExtInf(segs) ==
  IF segs = <<>> THEN <<>>
  ELSE <<TagLine("#EXTINF"), Head(segs)>> \o WithExtInf(Tail(segs))

ExampleDocs ==
  { WithExtInf(<<SegRel1, SegRel2, SegAd, SegRel1, SegRel2,
                 SegRel1, SegRel2, SegAd, SegRel1, SegRel2>>) }

\* the master playlists the origin may serve
MasterDocs ==
  { <<TagLine("#EXTM3U"), StreamInf(500), VariantRel, StreamInf(1200), VariantAbs>>,
    <<StreamInf(1200), VariantRel, StreamInf(1200), VariantAbs>>,
    <<StreamInf(0), TagLine("# ad"), VariantAbs>>,
    <<TagLine("#EXTM3U"), StreamInf(500)>> }

\* the number of variants of a master playlist
MaxVariants == 3

\* the BANDWIDTH values of the variants (0: the attribute is missing) and the
\* AVERAGE-BANDWIDTH values written before them (0: none)
Bandwidths == {0, 500000, 900000, 1200000}
AverageBandwidths == {0, 800000}

\* the URI line of the k-th variant
VariantUri(k) ==
  Line("", Uri(FALSE, "", <<>>, <<"v1.m3u8", "v2.m3u8", "v3.m3u8", "v4.m3u8">>[k]), 0, FALSE)

\* a master playlist: for each variant its stream tag and its URI line
RECURSIVE MasterOf(_, _, _)
MasterOf(bws, avgs, k) ==
  IF k > Len(bws) THEN <<>>
  ELSE <<StreamInfAvg(avgs[k], bws[k]), VariantUri(k)>> \o MasterOf(bws, avgs, k + 1)

\* an average is declared only next to a peak that is not below it
AveragesFor(bws) ==
  {avgs \in [1..Len(bws) -> AverageBandwidths] : \A k \in 1..Len(bws) : avgs[k] <= bws[k]}

VariantMasters ==
  UNION {UNION {{MasterOf(bws, avgs, 1) : avgs \in AveragesFor(bws)} : bws \in [1..n -> Bandwidths]}
         : n \in 1..MaxVariants}

\* the header of a media playlist, its three directives in any rotation
Headers ==
  { <<TagLine("#EXTM3U"), TagLine("#EXT-X-VERSION"), TagLine("#EXT-X-TARGETDURATION"),
      TagLine("#EXT-X-MEDIA-SEQUENCE")>>,
    <<TagLine("#EXTM3U"), TagLine("#EXT-X-TARGETDURATION"), TagLine("#EXT-X-MEDIA-SEQUENCE"),
      TagLine("#EXT-X-VERSION")>>,
    <<TagLine("#EXTM3U"), TagLine("#EXT-X-MEDIA-SEQUENCE"), TagLine("#EXT-X-VERSION"),
      TagLine("#EXT-X-TARGETDURATION")>> }

\* the lines between the header and the end of a complete media playlist
BodyLines ==
  { SegRel1, SegAd, KeyLine, TagLine("#EXTINF"), TagLine("#EXT-X-DISCONTINUITY"),
    TagLine("# ad") }

\* complete media playlists: header, up to MaxLines lines, #EXT-X-ENDLIST
CompleteDocs ==
  UNION {{h \o body \o <<TagLine("#EXT-X-ENDLIST")>> : h \in Headers, body \in [1..n -> BodyLines]}
         : n \in 0..MaxLines}

\* what the origin serves: the playlists built from MediaLines, master
\* playlists with up to MaxVariants variants, or complete media playlists
OriginDocs ==
  IF zorigin = "variants" THEN VariantMasters \cup ExampleDocs
  ELSE IF zorigin = "complete" THEN CompleteDocs
  ELSE MediaDocs \cup MasterDocs \cup ExampleDocs

\* a depth check that lets one more level through
EnterCleanLate(u, depth) ==
  IF depth > MaxDepth + 1
  THEN /\ zpc' = "done"
       /\ zresult' = CleanThrown("Redirect loop detected in M3U8 playlist")
       /\ ztimer' = FALSE
       /\ UNCHANGED <<zurl, zdepth>>
  ELSE /\ zpc' = "fetching"
       /\ zurl' = u
       /\ zdepth' = depth
       /\ ztimer' = TRUE
       /\ zresult' = NoCleanResult

\* step 1 up to the pending fetch, for the playlist at u and this depth
EnterClean(u, depth) ==
  IF depth > MaxDepth
  THEN /\ zpc' = "done"
       /\ zresult' = CleanThrown("Redirect loop detected in M3U8 playlist")
       /\ ztimer' = FALSE
       /\ UNCHANGED <<zurl, zdepth>>
  ELSE /\ zpc' = "fetching"
       /\ zurl' = u
       /\ zdepth' = depth
       /\ ztimer' = TRUE
       /\ zresult' = NoCleanResult

\* fetchAndCleanM3u8(url) is called
SanitizeCall ==
  /\ zpc = "idle"
  /\ EnterClean(StartUrl, 0)
  /\ UNCHANGED <<zdoc, zorigin>>
  /\ UNCHANGED notSanitize

\* fetch() resolves: clearTimeout, then !response.ok throws; the text of
\* this invocation (zdoc) is not read yet
PlaylistFetchResolves(ok) ==
  /\ zpc = "fetching"
  /\ ztimer' = FALSE
  /\ IF ok
     THEN /\ zpc' = "reading"
          /\ zdoc' = <<>>
          /\ UNCHANGED zresult
     ELSE /\ zpc' = "done"
          /\ zresult' = CleanThrown("HTTP")
          /\ UNCHANGED zdoc
  /\ UNCHANGED <<zdepth, zurl, zorigin>>
  /\ UNCHANGED notSanitize

\* fetch() rejects (transport failure), or the 8 s timer aborts it
PlaylistFetchFails(timeout) ==
  /\ zpc = "fetching"
  /\ timeout => ztimer
  /\ zpc' = "done"
  /\ ztimer' = FALSE
  /\ zresult' = CleanThrown(IF timeout THEN "AbortError" ELSE "fetch failed")
  /\ UNCHANGED <<zdepth, zurl, zdoc, zorigin>>
  /\ UNCHANGED notSanitize

\* response.text() rejects
PlaylistBodyFails ==
  /\ zpc = "reading"
  /\ zpc' = "done"
  /\ zresult' = CleanThrown("body failed")
  /\ UNCHANGED <<zdepth, zurl, zdoc, ztimer, zorigin>>
  /\ UNCHANGED notSanitize

\* response.text() resolves with the playlist: a master playlist with a
\* variant is followed, any other content is analysed and cleaned
PlaylistArrives ==
  /\ zpc = "reading"
  /\ \E lines \in OriginDocs :
       /\ zdoc' = lines
       /\ IF IsMasterContent(lines) /\ BestVariant(lines).url # NoUri
          THEN EnterClean(UrlOf(ToAbsolute(BestVariant(lines).url, zurl)), zdepth + 1)
          ELSE /\ zpc' = "done"
               /\ zresult' = CleanMedia(lines, zurl, zdepth)
               /\ UNCHANGED <<zdepth, zurl, ztimer>>
  /\ UNCHANGED zorigin
  /\ UNCHANGED notSanitize

(***************************************************************************)
(* Player: the effect that initializes the player when the URL changes     *)
(***************************************************************************)
\* the number of times the effect runs
MaxPlays == 2

\* the episode URLs; currentUrl.includes('.m3u8')
EpisodeUrls == {"a.m3u8", "b.m3u8", "c.mp4"}
IsM3u8(u) == u \in {"a.m3u8", "b.m3u8"}

\* what the player is given: the episode URL itself, or the object URL of
\* the blob that run h made
PlainUrl(u) == [kind |-> "url", url |-> u, handle |-> 0]
BlobUrl(h) == [kind |-> "blob", url |-> "", handle |-> h]
NoUrl == [kind |-> "none", url |-> "", handle |-> 0]

\* one run of the effect: its currentUrl, its isMounted flag, where
\* initPlayer stands, the pending fetchAndCleanM3u8 call (recursion depth,
\* whether its 8 s timer is armed, how it ended) and finalUrl
NewPlay(u) ==
  [url |-> u, isMounted |-> TRUE, pc |-> "libs", depth |-> 0, timer |-> FALSE,
   clean |-> NoCleanResult, finalUrl |-> NoUrl]

\* what a fetchAndCleanM3u8 call resolves with, as far as initPlayer looks
\* at it: removedCount
CleanOutcome(n) == CleanResult(<<>>, n, {})

\* the cleanup function of the effect: the run under way is told that it is
\* no longer mounted, the player instance is destroyed, the blob is revoked
CleanedUpRuns ==
  [r \in 1..Len(pruns) |-> [pruns[r] EXCEPT !.isMounted = FALSE]]

Revoked == IF pblob # 0 THEN phandles \ {pblob} ELSE phandles

\* the effect runs for currentUrl u, after the cleanup of the run before
RunPlayerEffect(u) ==
  /\ pruns' = IF u = "" THEN CleanedUpRuns ELSE Append(CleanedUpRuns, NewPlay(u))
  /\ part' = 0
  /\ pblob' = 0
  /\ phandles' = Revoked

\* setCurrentUrl(u): the first episode, an episode chosen in the list, or
\* the next episode when the video has ended
SetCurrentUrl(u) ==
  /\ pmounted
  /\ u # purl
  /\ Len(pruns) < MaxPlays
  /\ purl' = u
  /\ RunPlayerEffect(u)
  /\ UNCHANGED pmounted
  /\ UNCHANGED notPlayer

\* movieId changes: the effect runs again for the URL it has
ChangeMovie ==
  /\ pmounted
  /\ Len(pruns) < MaxPlays
  /\ RunPlayerEffect(purl)
  /\ UNCHANGED <<pmounted, purl>>
  /\ UNCHANGED notPlayer

\* the Player view is left
UnmountPlayer ==
  /\ pmounted
  /\ pmounted' = FALSE
  /\ pruns' = CleanedUpRuns
  /\ part' = 0
  /\ pblob' = 0
  /\ phandles' = Revoked
  /\ UNCHANGED purl
  /\ UNCHANGED notPlayer

\* new Artplayer({ url: finalUrl, ... }); artRef.current = art
InitArt(r, run, finalUrl) ==
  /\ pruns' = [pruns EXCEPT ![r] = [run EXCEPT !.pc = "playing", !.finalUrl = finalUrl,
                                                !.depth = 0, !.timer = FALSE]]
  /\ part' = r

\* the run returns without a player
EndPlay(r, run) ==
  /\ pruns' = [pruns EXCEPT ![r] = [run EXCEPT !.pc = "ended", !.depth = 0, !.timer = FALSE]]
  /\ UNCHANGED part

\* a continuation that lets a failed call end the run without a player
AfterCleanRethrows(r, run) ==
  IF ~run.isMounted \/ run.clean.kind = "throw"
  THEN /\ EndPlay(r, run)
       /\ UNCHANGED <<pblob, phandles>>
  ELSE IF run.clean.removedCount > 0
  THEN /\ InitArt(r, run, BlobUrl(r))
       /\ pblob' = r
       /\ phandles' = phandles \cup {r}
  ELSE /\ InitArt(r, run, PlainUrl(run.url))
       /\ UNCHANGED <<pblob, phandles>>

\* the code after "await fetchAndCleanM3u8(currentUrl)", for a call that
\* returned or threw: result.removedCount > 0 makes a blob, anything else
\* (the catch block included) leaves finalUrl = currentUrl
AfterClean(r, run) ==
  IF ~run.isMounted
  THEN /\ EndPlay(r, run)
       /\ UNCHANGED <<pblob, phandles>>
  ELSE IF run.clean.kind = "return" /\ run.clean.removedCount > 0
  THEN /\ InitArt(r, run, BlobUrl(r))
       /\ pblob' = r
       /\ phandles' = phandles \cup {r}
  ELSE /\ InitArt(r, run, PlainUrl(run.url))
       /\ UNCHANGED <<pblob, phandles>>

\* the scripts are there (or not) once waitForGlobal / loadScript are over
LibsSettle(r, ready) ==
  /\ r \in 1..Len(pruns)
  /\ pruns[r].pc = "libs"
  /\ IF ~ready \/ ~pruns[r].isMounted
     THEN /\ EndPlay(r, pruns[r])
          /\ UNCHANGED <<pblob, phandles>>
     ELSE IF IsM3u8(pruns[r].url)
     THEN /\ pruns' = [pruns EXCEPT ![r].pc = "fetching", ![r].timer = TRUE, ![r].depth = 0]
          /\ UNCHANGED <<part, pblob, phandles>>
     ELSE /\ InitArt(r, pruns[r], PlainUrl(pruns[r].url))
          /\ UNCHANGED <<pblob, phandles>>
  /\ UNCHANGED <<pmounted, purl>>
  /\ UNCHANGED notPlayer

\* fetch() of the playlist resolves for the call of run r
CallFetchResolves(r, ok) ==
  /\ r \in 1..Len(pruns)
  /\ pruns[r].pc = "fetching"
  /\ IF ok
     THEN /\ pruns' = [pruns EXCEPT ![r].pc = "reading", ![r].timer = FALSE]
          /\ UNCHANGED <<part, pblob, phandles>>
     ELSE AfterClean(r, [pruns[r] EXCEPT !.timer = FALSE, !.clean = CleanThrown("HTTP")])
  /\ UNCHANGED <<pmounted, purl>>
  /\ UNCHANGED notPlayer

\* fetch() rejects
CallFetchRejects(r) ==
  /\ r \in 1..Len(pruns)
  /\ pruns[r].pc = "fetching"
  /\ AfterClean(r, [pruns[r] EXCEPT !.timer = FALSE, !.clean = CleanThrown("fetch failed")])
  /\ UNCHANGED <<pmounted, purl>>
  /\ UNCHANGED notPlayer

\* the 8 s timer aborts the pending fetch()
CallTimesOut(r) ==
  /\ r \in 1..Len(pruns)
  /\ pruns[r].pc = "fetching"
  /\ pruns[r].timer
  /\ AfterClean(r, [pruns[r] EXCEPT !.timer = FALSE, !.clean = CleanThrown("AbortError")])
  /\ UNCHANGED <<pmounted, purl>>
  /\ UNCHANGED notPlayer

\* response.text() rejects
CallBodyFails(r) ==
  /\ r \in 1..Len(pruns)
  /\ pruns[r].pc = "reading"
  /\ AfterClean(r, [pruns[r] EXCEPT !.clean = CleanThrown("body failed")])
  /\ UNCHANGED <<pmounted, purl>>
  /\ UNCHANGED notPlayer

\* response.text() resolves with a master playlist that is followed
CallFollowsVariant(r) ==
  /\ r \in 1..Len(pruns)
  /\ pruns[r].pc = "reading"
  /\ IF pruns[r].depth + 1 > MaxDepth
     THEN AfterClean(r, [pruns[r] EXCEPT
                           !.clean = CleanThrown("Redirect loop detected in M3U8 playlist")])
     ELSE /\ pruns' = [pruns EXCEPT ![r].pc = "fetching", ![r].timer = TRUE,
                                    ![r].depth = pruns[r].depth + 1]
          /\ UNCHANGED <<part, pblob, phandles>>
  /\ UNCHANGED <<pmounted, purl>>
  /\ UNCHANGED notPlayer

\* response.text() resolves with a playlist that is analysed: the call
\* returns with removedCount = n
CallReturns(r, n) ==
  /\ r \in 1..Len(pruns)
  /\ pruns[r].pc = "reading"
  /\ AfterClean(r, [pruns[r] EXCEPT !.clean = CleanOutcome(n)])
  /\ UNCHANGED <<pmounted, purl>>
  /\ UNCHANGED notPlayer

(***************************************************************************)
(* Player as App mounts it (sources, onSelectMovie): playVideo, the effect *)
(* that cleans the playlist first and then creates the player or switches  *)
(* the URL of the player it has.                                           *)
(***************************************************************************)
\* the number of times the effect runs
MaxEffects == 3

\* one run of the effect: its currentUrl, its isMounted flag, where
\* playVideo stands, result.removedCount (-1 before the call returns) and
\* finalUrl
NewPlayVideo(u) ==
  [url |-> u, isMounted |-> TRUE, pc |-> IF IsM3u8(u) THEN "cleaning" ELSE "libs",
   removedCount |-> -1, finalUrl |-> PlainUrl(u)]

\* the cleanup function of the effect: isMounted = false (and the status
\* timer is cleared); nothing else
PlayVideoCleanupSkipped == vruns

PlayVideoCleanup ==
  [r \in 1..Len(vruns) |-> [vruns[r] EXCEPT !.isMounted = FALSE]]

\* the first statement of playVideo: the blob of the run before is revoked
RevokedAtStart == IF vblob # 0 THEN vhandles \ {vblob} ELSE vhandles

\* the effect runs for currentUrl u, after the cleanup of the run before;
\* the player instance stays
PlayVideo(u) ==
  /\ vruns' = IF u = "" THEN PlayVideoCleanup ELSE Append(PlayVideoCleanup, NewPlayVideo(u))
  /\ vblob' = IF u = "" THEN vblob ELSE 0
  /\ vhandles' = IF u = "" THEN vhandles ELSE RevokedAtStart

\* setCurrentUrl(u): the first episode, an episode of the list, the next one
SelectEpisode(u) ==
  /\ vmounted
  /\ u # vurl
  /\ Len(vruns) < MaxEffects
  /\ vurl' = u
  /\ PlayVideo(u)
  /\ UNCHANGED <<vmounted, vart, vshown>>
  /\ UNCHANGED notPlayVideo

\* movieId changes: the cleanup of the [movieId] effect destroys the player,
\* playVideo runs again for the URL it has
ChangeMovieId ==
  /\ vmounted
  /\ Len(vruns) < MaxEffects
  /\ vart' = 0
  /\ vshown' = NoUrl
  /\ PlayVideo(vurl)
  /\ UNCHANGED <<vmounted, vurl>>
  /\ UNCHANGED notPlayVideo

\* effectiveAccEnabled changes: playVideo runs again for the URL it has
ToggleAcceleration ==
  /\ vmounted
  /\ Len(vruns) < MaxEffects
  /\ PlayVideo(vurl)
  /\ UNCHANGED <<vmounted, vurl, vart, vshown>>
  /\ UNCHANGED notPlayVideo

\* the Player view is left: the cleanups of both effects run
LeavePlayer ==
  /\ vmounted
  /\ vmounted' = FALSE
  /\ vruns' = PlayVideoCleanup
  /\ vart' = 0
  /\ vshown' = NoUrl
  /\ UNCHANGED <<vurl, vblob, vhandles>>
  /\ UNCHANGED notPlayVideo

\* after the try around the call: if (!isMounted) return, then the libraries
AfterCleaning(r, run) ==
  vruns' = [vruns EXCEPT ![r] = [run EXCEPT !.pc = IF run.isMounted THEN "libs"
                                                                     ELSE "ended"]]

\* await fetchAndCleanM3u8(finalUrl) returns with removedCount n
CleanResolves(r, n) ==
  /\ r \in 1..Len(vruns)
  /\ vruns[r].pc = "cleaning"
  /\ IF vruns[r].isMounted /\ n > 0
       THEN /\ AfterCleaning(r, [vruns[r] EXCEPT !.removedCount = n,
                                                 !.finalUrl = BlobUrl(r)])
            /\ vblob' = r
            /\ vhandles' = vhandles \cup {r}
       ELSE /\ AfterCleaning(r, [vruns[r] EXCEPT !.removedCount = n])
            /\ UNCHANGED <<vblob, vhandles>>
  /\ UNCHANGED <<vmounted, vurl, vart, vshown>>
  /\ UNCHANGED notPlayVideo

\* the call throws: catch (e) { if (isMounted) setCleanStatus('') }
CleanThrows(r) ==
  /\ r \in 1..Len(vruns)
  /\ vruns[r].pc = "cleaning"
  /\ AfterCleaning(r, vruns[r])
  /\ UNCHANGED <<vmounted, vurl, vart, vshown, vblob, vhandles>>
  /\ UNCHANGED notPlayVideo

\* the waits for Artplayer and Hls are over: if (!isMounted) return; without
\* the library the run ends in the catch; artRef.current.switchUrl(finalUrl)
\* when there is a player, new Artplayer({ url: finalUrl }) otherwise
LibsReady(r, ready) ==
  /\ r \in 1..Len(vruns)
  /\ vruns[r].pc = "libs"
  /\ IF vruns[r].isMounted /\ ready
       THEN /\ vruns' = [vruns EXCEPT ![r].pc = "playing"]
            /\ vart' = IF vart # 0 THEN vart ELSE r
            /\ vshown' = vruns[r].finalUrl
       ELSE /\ vruns' = [vruns EXCEPT ![r].pc = "ended"]
            /\ UNCHANGED <<vart, vshown>>
  /\ UNCHANGED <<vmounted, vurl, vblob, vhandles>>
  /\ UNCHANGED notPlayVideo

(***************************************************************************)
(* runSourceCheck: the health scan of all sources                          *)
(***************************************************************************)
\* the longest source list
MaxSources == 3

\* the API URLs of the sources; a source is its position in allSources
ApiUrls == {"x", "y", "z"}
SourceLists == UNION {[1..n -> ApiUrls] : n \in 0..MaxSources}

\* how a probe ends: fetchViaProxy returns a text with one of the markers
\* 'vod', 'list', 'class', 'code":200', returns another text, or throws
ProbeOutcomes == {"healthy", "unrecognized", "throws"}

\* the locals of runSourceCheck: the loop index i, seenApis, workingSources,
\* deadApis, duplicatesCount, deadCount; the probes awaited (inflight); and
\* what has happened so far: the setCheckProgress calls (notes), the sources
\* probed (starts, in order), how each source was classified (outcomes)
NoScan ==
  [i |-> 0, seen |-> {}, working |-> <<>>, deadApis |-> <<>>, dup |-> 0, dead |-> 0,
   inflight |-> {}, notes |-> <<>>, starts |-> <<>>, outcomes |-> <<>>, done |-> FALSE]

NoStats == [duplicates |-> -1, dead |-> -1, total |-> -1, cleanedList |-> <<>>, deadApis |-> <<>>]

\* a progress call that counts from 0
NotifiedFromZero(notes, current, total) ==
  Append(notes, [current |-> current - 1, total |-> total])

\* setCheckProgress({ current, total, name })
Notified(notes, current, total) ==
  Append(notes, [current |-> current, total |-> total])

\* a probe that is not awaited
ProbeStartedBeside(st, i) ==
  [st EXCEPT !.inflight = @ \cup {i, i - 1}, !.starts = Append(@, i)]

\* await fetchViaProxy(testUrl) for source i begins
ProbeStarted(st, i) ==
  [st EXCEPT !.inflight = @ \cup {i}, !.starts = Append(@, i)]

\* the for loop from index i up to its next await or its end
RECURSIVE LoopFrom(_, _)
LoopFrom(i, st) ==
  IF i > Len(hsources) THEN [st EXCEPT !.i = i, !.done = TRUE]
  ELSE LET told == [st EXCEPT !.i = i, !.notes = Notified(@, i, Len(hsources))]
       IN IF hsources[i] \in told.seen
          THEN LoopFrom(i + 1, [told EXCEPT !.dup = @ + 1,
                                            !.outcomes = Append(@, "duplicate")])
          ELSE ProbeStarted(told, i)

\* a classification that does not remember the API URL of a healthy source
ClassifiedUnseen(st, i, outcome) ==
  IF outcome = "healthy"
  THEN [st EXCEPT !.working = Append(@, i),
                  !.inflight = @ \ {i}, !.outcomes = Append(@, outcome)]
  ELSE [st EXCEPT !.dead = @ + 1, !.deadApis = Append(@, hsources[i]),
                  !.inflight = @ \ {i}, !.outcomes = Append(@, outcome)]

\* the try / catch around the probe of source i
Classified(st, i, outcome) ==
  IF outcome = "healthy"
  THEN [st EXCEPT !.working = Append(@, i), !.seen = @ \cup {hsources[i]},
                  !.inflight = @ \ {i}, !.outcomes = Append(@, outcome)]
  ELSE [st EXCEPT !.dead = @ + 1, !.deadApis = Append(@, hsources[i]),
                  !.inflight = @ \ {i}, !.outcomes = Append(@, outcome)]

\* a catch that lets the error leave the loop
AfterProbeRethrows(st, i, outcome) ==
  IF outcome = "throws"
  THEN [st EXCEPT !.inflight = @ \ {i}]
  ELSE LoopFrom(i + 1, Classified(st, i, outcome))

\* the probe of source i has ended: classify, go on with the loop
AfterProbe(st, i, outcome) == LoopFrom(i + 1, Classified(st, i, outcome))

\* setMaintenanceStats({...}); setIsCheckingSources(false), once the loop
\* is over
Publish(st) ==
  /\ hs' = st
  /\ IF st.done
     THEN /\ hstats' = [duplicates |-> st.dup, dead |-> st.dead, total |-> Len(hsources),
                        cleanedList |-> st.working, deadApis |-> st.deadApis]
          /\ hchecking' = FALSE
     ELSE UNCHANGED <<hstats, hchecking>>

\* initSources: the current source is one of the sources not disabled, the
\* placeholder with api '' when there is none
InitialCurrent(list, off) ==
  IF \A k \in 1..Len(list) : list[k] \in off THEN {""}
  ELSE {list[k] : k \in {j \in 1..Len(list) : list[j] \notin off}}

\* a scan that disables the dead sources itself
ScanFrameDisabling ==
  /\ hdisabled' = hdisabled \cup {hs'.deadApis[k] : k \in 1..Len(hs'.deadApis)}
  /\ UNCHANGED <<hsources, hndefault, hcurrent>>

\* runSourceCheck calls none of onUpdateCustomSources,
\* onUpdateDisabledSources, onSourceChange
ScanFrame == UNCHANGED hconfig

\* runSourceCheck() is called (the button is pressed)
RunSourceCheck ==
  /\ ~hchecking
  /\ IF Len(hsources) = 0
     THEN /\ hstats' = NoStats
          /\ hchecking' = FALSE
          /\ hs' = NoScan
     ELSE LET st == LoopFrom(1, [NoScan EXCEPT !.notes = Notified(@, 0, Len(hsources))])
          IN /\ hs' = st
             /\ hstats' = NoStats
             /\ hchecking' = TRUE
  /\ ScanFrame
  /\ UNCHANGED notScan

\* the probe of source i returns or throws
ProbeSettles(i, outcome) ==
  /\ i \in hs.inflight
  /\ Publish(AfterProbe(hs, i, outcome))
  /\ ScanFrame
  /\ UNCHANGED notScan

(***************************************************************************)
(* confirmCleanup and the App handlers it calls                            *)
(***************************************************************************)
DefaultSources == SubSeq(hsources, 1, hndefault)
CustomSources == SubSeq(hsources, hndefault + 1, Len(hsources))

\* s.isCustom of the source at position i of allSources
IsCustom(i) == i > hndefault

\* q.map(s => s.api), q a list of positions of allSources
ApisOf(q) == [k \in 1..Len(q) |-> hsources[q[k]]]

\* list.find(s => !off.has(s.api)): its api, "" when there is none
RECURSIVE FirstAvailable(_, _)
FirstAvailable(list, off) ==
  IF list = <<>> THEN ""
  ELSE IF Head(list) \notin off THEN Head(list) ELSE FirstAvailable(Tail(list), off)

SeqRange(q) == {q[k] : k \in 1..Len(q)}

\* handleUpdateCustomSources: the source to change to, "" when
\* handleSourceChange is not called; disabledApis and currentSource are
\* those of the render
CurrentAfterCustom(newCustom) ==
  LET list == DefaultSources \o newCustom
  IN IF hcurrent \in SeqRange(list) /\ hcurrent \notin hdisabled
     THEN ""
     ELSE FirstAvailable(list, hdisabled)

\* handleUpdateDisabledSources: the source to change to, "" when
\* handleSourceChange is not called; customSources and currentSource are
\* those of the render
CurrentAfterDisabled(newDisabled) ==
  IF hcurrent \in newDisabled
  THEN FirstAvailable(DefaultSources \o CustomSources, newDisabled)
  ELSE ""

\* the two handlers in turn: the last setCurrentSource is the one kept
ApplyCleanup(newCustom, newDisabled) ==
  LET c1 == CurrentAfterCustom(newCustom)
      c2 == CurrentAfterDisabled(newDisabled)
  IN /\ hsources' = DefaultSources \o newCustom
     /\ hdisabled' = newDisabled
     /\ hcurrent' = IF c2 # "" THEN c2 ELSE IF c1 # "" THEN c1 ELSE hcurrent
     /\ hstats' = NoStats

\* confirmCleanup() is called and the user accepts the dialog
ConfirmCleanup ==
  /\ hstats # NoStats
  /\ IF hstats.duplicates + hstats.dead = 0
     THEN ApplyCleanup(CustomSources, {})
     ELSE LET workingApis == SeqRange(ApisOf(hstats.cleanedList))
              healthyCustomList == ApisOf(SelectSeq(hstats.cleanedList, IsCustom))
              allDisabledApis ==
                {hsources[i] : i \in {k \in 1..Len(hsources) :
                                        ~IsCustom(k) /\ hsources[k] \notin workingApis}}
          IN ApplyCleanup(healthyCustomList, allDisabledApis)
  /\ hs' = NoScan
  /\ UNCHANGED <<hndefault, hchecking>>
  /\ UNCHANGED notScan

(***************************************************************************)
(* The App handlers that manage the sources                                *)
(***************************************************************************)
\* handleSourceChange(source): setCurrentSource(source)
HandleSourceChange(api) == hcurrent' = api

\* addCustomSourceToStorage: a source whose api is stored already is not
\* stored again
AddedTo(custom, api) == IF api \in SeqRange(custom) THEN custom ELSE Append(custom, api)

\* handleAddCustomSource(name, api)
HandleAddCustomSource(api) ==
  /\ Len(hsources) < MaxSources \/ api \in SeqRange(CustomSources)
  /\ hsources' = DefaultSources \o AddedTo(CustomSources, api)
  /\ HandleSourceChange(api)
  /\ UNCHANGED <<hndefault, hdisabled, hchecking, hstats, hs>>
  /\ UNCHANGED notScan

\* removeCustomSourceFromStorage: current.filter(s => s.api !== api)
RemovedFrom(custom, api) == SelectSeq(custom, LAMBDA a : a # api)

\* handleRemoveCustomSource(api), from the list of the custom sources
HandleRemoveCustomSource(api) ==
  /\ api \in SeqRange(CustomSources)
  /\ LET updated == RemovedFrom(CustomSources, api)
     IN /\ hsources' = DefaultSources \o updated
        /\ IF hcurrent = api /\ updated # <<>> THEN HandleSourceChange(updated[1])
           ELSE IF hcurrent = api /\ DefaultSources # <<>>
                THEN HandleSourceChange(DefaultSources[1])
           ELSE UNCHANGED hcurrent
  /\ UNCHANGED <<hndefault, hdisabled, hchecking, hstats, hs>>
  /\ UNCHANGED notScan

\* handleUpdateCustomSources(newCustomSources)
HandleUpdateCustomSources(newCustom) ==
  /\ hndefault + Len(newCustom) <= MaxSources
  /\ hsources' = DefaultSources \o newCustom
  /\ IF CurrentAfterCustom(newCustom) # ""
     THEN HandleSourceChange(CurrentAfterCustom(newCustom))
     ELSE UNCHANGED hcurrent
  /\ UNCHANGED <<hndefault, hdisabled, hchecking, hstats, hs>>
  /\ UNCHANGED notScan

\* handleUpdateDisabledSources(newDisabledApisList)
HandleUpdateDisabledSources(newDisabled) ==
  /\ hdisabled' = newDisabled
  /\ IF CurrentAfterDisabled(newDisabled) # ""
     THEN HandleSourceChange(CurrentAfterDisabled(newDisabled))
     ELSE UNCHANGED hcurrent
  /\ UNCHANGED <<hsources, hndefault, hchecking, hstats, hs>>
  /\ UNCHANGED notScan

(***************************************************************************)
(* storage.ts: the watch history                                           *)
(***************************************************************************)
MAX_HISTORY_ITEMS == 50

\* the number of additions to the history after the initial ones
MaxOps == 3

\* the ids of the movies; 0 stands for the empty id
MovieIds == 0..(MAX_HISTORY_ITEMS + 1)

\* the movies opened, updated or removed by the operations of the model
OpenedIds == {0, 1, MAX_HISTORY_ITEMS, MAX_HISTORY_ITEMS + 1}

\* a stored movie: its id, whether it has a title, currentTime
Movie(id, titled, t) == [id |-> id, titled |-> titled, currentTime |-> t]

\* item && item.id && item.title
IsValidItem(item) == item.id # 0 /\ item.titled

\* getHistory(): the stored array without the items that have no id or no
\* title
GetHistory == SelectSeq(ystored, IsValidItem)

\* history.findIndex(item => item.id === id): 0 when there is none
RECURSIVE FindIndexFrom(_, _, _)
FindIndexFrom(history, id, k) ==
  IF k > Len(history) THEN 0
  ELSE IF history[k].id = id THEN k
  ELSE FindIndexFrom(history, id, k + 1)

FindIndex(history, id) == FindIndexFrom(history, id, 1)

\* history.splice(index, 1)
Spliced(history, index) ==
  [k \in 1..(Len(history) - 1) |-> IF k < index THEN history[k] ELSE history[k + 1]]

\* newItem: the progress of the movie passed in, else the one stored
NewItem(history, movie) ==
  LET existingIndex == FindIndex(history, movie.id)
  IN IF existingIndex # 0 /\ movie.currentTime = 0
     THEN [movie EXCEPT !.currentTime = history[existingIndex].currentTime]
     ELSE movie

\* array.slice(0, n)
Slice(list, n) == SubSeq(list, 1, IF Len(list) < n THEN Len(list) ELSE n)

\* a history that is never cut
NewHistoryUncut(history, movie) ==
  LET existingIndex == FindIndex(history, movie.id)
      rest == IF existingIndex # 0 THEN Spliced(history, existingIndex) ELSE history
  IN <<NewItem(history, movie)>> \o rest

\* newHistory = [newItem, ...history].slice(0, MAX_HISTORY_ITEMS), after the
\* splice of the item stored for the same id
NewHistory(history, movie) ==
  LET existingIndex == FindIndex(history, movie.id)
      rest == IF existingIndex # 0 THEN Spliced(history, existingIndex) ELSE history
  IN Slice(<<NewItem(history, movie)>> \o rest, MAX_HISTORY_ITEMS)

\* addToHistory(movie)
AddToHistory(movie) ==
  /\ yclock < MaxOps
  /\ ystored' = NewHistory(GetHistory, movie)
  /\ yclock' = yclock + 1
  /\ ystamp' = [ystamp EXCEPT ![movie.id] = MAX_HISTORY_ITEMS + yclock + 1]
  /\ UNCHANGED notHistory

\* updateHistoryProgress(movieId, time): nothing is written when the movie
\* is not in the history
UpdateHistoryProgress(movieId, time) ==
  /\ LET history == GetHistory
         index == FindIndex(history, movieId)
     IN IF index # 0
        THEN ystored' = [history EXCEPT ![index].currentTime = time]
        ELSE UNCHANGED ystored
  /\ UNCHANGED <<ystamp, yclock>>
  /\ UNCHANGED notHistory

\* removeFromHistory(movieId)
RemoveFromHistory(movieId) ==
  /\ ystored' = SelectSeq(GetHistory, LAMBDA m : m.id # movieId)
  /\ UNCHANGED <<ystamp, yclock>>
  /\ UNCHANGED notHistory

\* clearHistory()
ClearHistory ==
  /\ ystored' = <<>>
  /\ UNCHANGED <<ystamp, yclock>>
  /\ UNCHANGED notHistory

(***************************************************************************)
(* onRequest: the relay the requests of the browser go through             *)
(***************************************************************************)
\* the url parameter of the request: missing, empty, or a target
NoParam == "none"
UrlParams == {NoParam, "", "http://api/list", "https://movie.douban.com/j"}

\* what the upstream answers with: its status, its content-type header ("":
\* none) and, once read, its body
UpstreamStatuses == {200, 403, 404, 500}
ContentTypes == {"", "application/json", "text/xml"}
UpstreamBodies == {"", "{json}", "<html>"}

NoUpstream == [status |-> 0, contentType |-> ""]
NoResponse == [status |-> 0, contentType |-> "", body |-> ""]

\* new Response(body, { status, headers: { 'content-type': ctype } })
RelayResponse(status, ctype, body) == [status |-> status, contentType |-> ctype, body |-> body]

\* the body of an error answer of the relay itself
ErrorBody == "{error}"

\* the status of the answer that hands on what the upstream sent
RelayedStatus(upstream) == 200

\* response.headers.get('content-type') || 'text/plain'
RelayedContentType(upstream) ==
  IF upstream.contentType = "" THEN "text/plain" ELSE upstream.contentType

\* onRequest(context) up to the await of fetch: without url parameter the
\* answer is 400
OnRequest(param) ==
  /\ rpc = "idle"
  /\ rparam' = param
  /\ IF param = NoParam \/ param = ""
     THEN /\ rpc' = "done"
          /\ rresponse' = RelayResponse(400, "application/json", ErrorBody)
     ELSE /\ rpc' = "fetching"
          /\ rresponse' = NoResponse
  /\ rupstream' = NoUpstream
  /\ UNCHANGED notRelay

\* fetch(targetUrl, { headers }) resolves, whatever the status
UpstreamResolves(status, ctype) ==
  /\ rpc = "fetching"
  /\ rpc' = "reading"
  /\ rupstream' = [status |-> status, contentType |-> ctype]
  /\ UNCHANGED <<rparam, rresponse>>
  /\ UNCHANGED notRelay

\* fetch throws: the catch answers 500
UpstreamRejects ==
  /\ rpc = "fetching"
  /\ rpc' = "done"
  /\ rresponse' = RelayResponse(500, "application/json", ErrorBody)
  /\ UNCHANGED <<rparam, rupstream>>
  /\ UNCHANGED notRelay

\* response.text() resolves: the body is handed on
UpstreamBodyArrives(body) ==
  /\ rpc = "reading"
  /\ rpc' = "done"
  /\ rresponse' = RelayResponse(RelayedStatus(rupstream), RelayedContentType(rupstream), body)
  /\ UNCHANGED <<rparam, rupstream>>
  /\ UNCHANGED notRelay

\* response.text() rejects: the catch answers 500
UpstreamBodyFails ==
  /\ rpc = "reading"
  /\ rpc' = "done"
  /\ rresponse' = RelayResponse(500, "application/json", ErrorBody)
  /\ UNCHANGED <<rparam, rupstream>>
  /\ UNCHANGED notRelay

\* the relay is ready for the next request
NextRequest ==
  /\ rpc = "done"
  /\ rpc' = "idle"
  /\ rparam' = NoParam
  /\ rupstream' = NoUpstream
  /\ rresponse' = NoResponse
  /\ UNCHANGED notRelay

(***************************************************************************)
(* douban.ts: the poster lookups and their in-memory cache                 *)
(***************************************************************************)
\* the number of lookups
MaxLookups == 3

\* the ids looked up ("" is looked up too, and answered at once)
PosterIds == {"d1", "d2"}

\* the entry of an id in wmdbImageCache: none, null, or the poster
NotCached == "absent"
CachedNull == "null"
PosterOf(id) == <<"poster", id>>

\* how the request of a lookup ends: a poster, no usable poster, an error
LookupOutcomes == {"poster", "noposter", "fails"}

\* one call of fetchWMDBImage: the id, where it stands, what it returned,
\* whether it was answered from the cache
NewLookup(id, pc, result, cached) ==
  [id |-> id, pc |-> pc, result |-> result, fromCache |-> cached]

\* fetchWMDBImage(id) up to its first await: null without id, the cached
\* entry when there is one, the random delay otherwise
FetchWMDBImage(id) ==
  /\ Len(ilookups) < MaxLookups
  /\ ilookups' = Append(ilookups,
        IF id = "" THEN NewLookup(id, "done", CachedNull, FALSE)
        ELSE IF icache[id] # NotCached THEN NewLookup(id, "done", icache[id], TRUE)
        ELSE NewLookup(id, "delay", NotCached, FALSE))
  /\ UNCHANGED <<icache, irequests>>
  /\ UNCHANGED notImages

\* the delay is over: fetch('https://api.wmdb.tv/movie/api?id=' + id)
DelayEnds(k) ==
  /\ k \in 1..Len(ilookups)
  /\ ilookups[k].pc = "delay"
  /\ ilookups' = [ilookups EXCEPT ![k].pc = "fetching"]
  /\ irequests' = [irequests EXCEPT ![ilookups[k].id] = @ + 1]
  /\ UNCHANGED icache
  /\ UNCHANGED notImages

\* the request ends: the poster is cached and returned, anything else
\* caches null and returns null
RequestSettles(k, outcome) ==
  /\ k \in 1..Len(ilookups)
  /\ ilookups[k].pc = "fetching"
  /\ LET id == ilookups[k].id
         result == IF outcome = "poster" THEN PosterOf(id) ELSE CachedNull
     IN /\ icache' = [icache EXCEPT ![id] = result]
        /\ ilookups' = [ilookups EXCEPT ![k].pc = "done", ![k].result = result]
  /\ UNCHANGED irequests
  /\ UNCHANGED notImages

(***************************************************************************)
(* Properties of the sanitizer                                             *)
(***************************************************************************)
Sanitized == zpc = "done" /\ zresult.kind = "return"

\* the segment lines of the analysed playlist
SegLines == {k \in 1..Len(zdoc) : IsUriLine(zdoc[k])}

FpAt(k) == Fingerprint(ToAbsolute(zdoc[k].uri, zurl))

ClusterSize(fp) == Cardinality({k \in SegLines : FpAt(k) = fp})

\* the fingerprints no other fingerprint outnumbers
LargestClusters ==
  {FpAt(k) : k \in {m \in SegLines : \A o \in SegLines : ClusterSize(FpAt(o)) <= ClusterSize(FpAt(m))}}

RECURSIVE IsSubsequence(_, _)
IsSubsequence(a, b) ==
  IF a = <<>> THEN TRUE
  ELSE IF b = <<>> THEN FALSE
  ELSE IF Head(a) = Head(b) THEN IsSubsequence(Tail(a), Tail(b))
  ELSE IsSubsequence(a, Tail(b))

\* the absolute URLs of the segment lines of a playlist, in order
RECURSIVE SegmentUrls(_, _)
SegmentUrls(lines, fps) ==
  IF lines = <<>> THEN <<>>
  ELSE IF IsUriLine(Head(lines)) /\ Fingerprint(ToAbsolute(Head(lines).uri, zurl)) \in fps
       THEN <<ToAbsolute(Head(lines).uri, zurl)>> \o SegmentUrls(Tail(lines), fps)
  ELSE SegmentUrls(Tail(lines), fps)

AllFps == {FpAt(k) : k \in SegLines}

\* C9: whenever the sanitizer returns, no segment line of the dominant
\* (largest) fingerprint cluster is in the removal set, and the returned
\* playlist contains every segment of that cluster, in the original order.
C9_DominantKept ==
  (Sanitized /\ SegLines # {}) =>
    \E d \in LargestClusters :
      /\ \A k \in zresult.removed : ~(k \in SegLines /\ FpAt(k) = d)
      /\ IsSubsequence(SegmentUrls(zdoc, {d}), SegmentUrls(zresult.content, AllFps))

\* a minority segment was removed while two different segments of the
\* dominant cluster, one of them before the removed one, were kept
C9_Witness ==
  /\ Sanitized
  /\ \E k1, k2, k3 \in SegLines :
       /\ k1 < k2 /\ k2 < k3
       /\ k2 \in zresult.removed
       /\ k1 \notin zresult.removed /\ k3 \notin zresult.removed
       /\ zdoc[k1].uri # zdoc[k3].uri
       /\ SegmentUrls(zresult.content, AllFps)
            = <<ToAbsolute(zdoc[k1].uri, zurl), ToAbsolute(zdoc[k3].uri, zurl)>>

\* the largest cluster holds fewer than 0.4 of the segments
LargestBelowThreshold ==
  /\ SegLines # {}
  /\ \A d \in AllFps : 5 * ClusterSize(d) < 2 * Cardinality(SegLines)

\* C10: when the largest cluster holds fewer than 0.4 of the segments, the
\* returned content is the fetched content, unchanged, and removedCount is 0.
C10_BelowThresholdUnchanged ==
  (Sanitized /\ LargestBelowThreshold) =>
    (zresult.content = zdoc /\ zresult.removedCount = 0)

\* a playlist below the threshold, reached through a master playlist, whose
\* rebuilt form would differ from what was fetched
C10_Witness ==
  /\ Sanitized
  /\ LargestBelowThreshold
  /\ zdepth > 0
  /\ RebuildFrom(zdoc, zurl, {}, 1) # zdoc
  /\ zresult.content = zdoc
  /\ zresult.removedCount = 0

\* the share of the dominant cluster is at least 0.4
DominantShareReached ==
  /\ SegLines # {}
  /\ \E d \in AllFps : 5 * ClusterSize(d) >= 2 * Cardinality(SegLines)

\* the segment lines outside the cluster d
MinorityLines(d) == {k \in SegLines : FpAt(k) # d}

\* the directives that describe the segment after them: its duration, its
\* byte range, its key, a discontinuity before it
IsSegmentDirective(l) ==
  l.tag \in {"#EXTINF", "#EXT-X-BYTERANGE", "#EXT-X-KEY", "#EXT-X-DISCONTINUITY"}

\* line j is a metadata line that precedes the segment at line k with
\* nothing but metadata lines, comments and empty lines between them
PrecedesAsMetadata(j, k) ==
  /\ j < k
  /\ IsSegmentDirective(zdoc[j])
  /\ \A i \in (j + 1)..(k - 1) :
       \/ IsSegmentDirective(zdoc[i])
       \/ IsBlankLine(zdoc[i])
       \/ zdoc[i].tag = "# ad"

\* the lines that go with the minority segments of cluster d
MinorityWithMetadata(d) ==
  MinorityLines(d) \cup
  {j \in 1..Len(zdoc) : \E k \in MinorityLines(d) : PrecedesAsMetadata(j, k)}

NonBlankKept(removed) ==
  Cardinality({k \in 1..Len(zdoc) : k \notin removed /\ ~IsBlankLine(zdoc[k])})

\* C11: for a directly fetched media playlist whose dominant share is at
\* least 0.4, the output holds no segment outside the dominant cluster, the
\* lines removed are exactly the minority segments and the metadata lines
\* that precede them, and removedCount is the number of minority segments.
C11_MinorityRemoved ==
  (Sanitized /\ zdepth = 0 /\ DominantShareReached) =>
    \E d \in LargestClusters :
      /\ SegmentUrls(zresult.content, AllFps \ {d}) = <<>>
      /\ zresult.removed = MinorityWithMetadata(d)
      /\ Len(zresult.content) = NonBlankKept(zresult.removed)
      /\ zresult.removedCount = Cardinality(MinorityLines(d))

\* the playlist with clusters of 8 and 2 was sanitized: 2 segments and
\* their 2 #EXTINF lines are gone, the 8 others are all there
C11_Witness ==
  /\ Sanitized
  /\ zdepth = 0
  /\ zdoc \in ExampleDocs
  /\ zresult.removedCount = 2
  /\ Cardinality(zresult.removed) = 4
  /\ Len(SegmentUrls(zresult.content, AllFps)) = 8

FollowedMaster ==
  zpc = "fetching" /\ zdepth > 0 /\ zdoc \in VariantMasters

\* the stream tags of the playlist followed
StreamTags == {k \in 1..Len(zdoc) : zdoc[k].tag = "#EXT-X-STREAM-INF"}

\* the first stream tag that declares the highest BANDWIDTH
HighestDeclared ==
  CHOOSE k \in StreamTags :
    /\ \A o \in StreamTags : zdoc[o].bw <= zdoc[k].bw
    /\ \A o \in StreamTags : (o < k) => zdoc[o].bw < zdoc[k].bw

\* C14: the variant followed is the first one that declares the highest
\* bandwidth.
C14_HighestBandwidthFollowed ==
  FollowedMaster => zurl.file = zdoc[HighestDeclared + 1].uri.file

\* no stream tag of the playlist followed has AVERAGE-BANDWIDTH written
\* before BANDWIDTH
BandwidthComesFirst == \A k \in StreamTags : zdoc[k].avg = 0

\* the same for playlists whose stream tags have BANDWIDTH as the first
\* attribute that ends in "BANDWIDTH="
C14_HighestFollowedWhenFirst ==
  (FollowedMaster /\ BandwidthComesFirst) => zurl.file = zdoc[HighestDeclared + 1].uri.file

\* the bandwidths 500000, 1200000, 900000 in some order, the 1200000
\* variant, which is not the first, was followed
C14_Example ==
  /\ FollowedMaster
  /\ BandwidthComesFirst
  /\ {zdoc[k].bw : k \in StreamTags} = {500000, 900000, 1200000}
  /\ HighestDeclared > 1
  /\ zdoc[HighestDeclared].bw = 1200000
  /\ zurl.file = zdoc[HighestDeclared + 1].uri.file

RedirectLoop == CleanThrown("Redirect loop detected in M3U8 playlist")

\* the playlist received names a variant to follow
NamesVariant(lines) == IsMasterContent(lines) /\ BestVariant(lines).url # NoUri

\* C15: a chain of master playlists is followed to depth 3 at most: every
\* fetch after the first is one level deeper than the one before, no fetch
\* is made beyond depth 3, and a master playlist received at depth 3 ends
\* the call with the redirect-loop error.
C15_DepthBounded ==
  [][/\ zdepth' <= MaxDepth
     /\ (zpc' = "fetching" /\ zpc # "idle") => zdepth' = zdepth + 1
     /\ (zpc = "reading" /\ zdepth = MaxDepth /\ zpc' # "reading" /\ NamesVariant(zdoc'))
          => (zpc' = "done" /\ zresult' = RedirectLoop /\ ~ztimer')
     /\ (zresult' = RedirectLoop /\ zresult # RedirectLoop)
          => (zdepth = MaxDepth /\ NamesVariant(zdoc'))]_vars

\* the call has ended with the redirect-loop error on a master playlist at
\* depth 3 that names its own URL
C15_Witness ==
  /\ zpc = "done"
  /\ zresult = RedirectLoop
  /\ zdepth = MaxDepth
  /\ NamesVariant(zdoc)
  /\ UrlOf(ToAbsolute(BestVariant(zdoc).url, zurl)) = zurl

(***************************************************************************)
(* Properties of the Player                                                *)
(***************************************************************************)
PlayIds == 1..Len(pruns)

CleanFailed(r) == pruns[r].clean.kind = "throw"

Cleaning(r) ==
  r \in PlayIds /\ pruns[r].pc \in {"fetching", "reading"} /\ pruns[r].isMounted

\* run r has given the player a URL, or the view was left or the URL changed
GivenUrlOrLeft(r) ==
  r \in PlayIds /\ (pruns[r].pc = "playing" \/ ~pruns[r].isMounted)

\* C13: once the sanitize call of a run is pending, the run eventually
\* gives the player a URL, unless the view is left or the URL changes,
\* whatever the playlist host does.
C13_PlaybackStarts ==
  \A r \in 1..MaxPlays : [](Cleaning(r) => <>GivenUrlOrLeft(r))

\* the same, except that a call may stay in the read of the body
C13_OnlyBodyStalls ==
  \A r \in 1..MaxPlays :
    [](Cleaning(r) => <>(GivenUrlOrLeft(r) \/ (r \in PlayIds /\ pruns[r].pc = "reading")))

(***************************************************************************)
(* Properties of the Player: the playlist handle, the late result          *)
(***************************************************************************)
\* C31: every blob URL made for playback is released: at most one handle is
\* unreleased at any time, and none is once the Player view has been left.
C31_HandlesReleased ==
  /\ Cardinality(vhandles) <= 1
  /\ ~vmounted => vhandles = {}

\* the URL or the movie changed, or the view was left, after run r started
Superseded(r) == r # Len(vruns) \/ ~vmounted

\* C34: when the episode URL changes or the Player unmounts while the
\* sanitize call of a run is pending, the late result is never used: the run
\* makes no blob handle and goes on neither to create nor to switch the
\* player.
C34_LateResultUnused ==
  [][\A r \in 1..Len(vruns) :
       (vruns[r].pc = "cleaning" /\ Superseded(r)) =>
          /\ vruns'[r].pc \in {"cleaning", "ended"}
          /\ vruns'[r].finalUrl = PlainUrl(vruns[r].url)
          /\ r \notin vhandles'
          /\ vblob' # r
          /\ vart' # r
          /\ vshown' # BlobUrl(r)]_vars

\* a superseded run whose call came back with lines removed
C34_Witness ==
  \E r \in 1..Len(vruns) :
     /\ Superseded(r)
     /\ vruns[r].pc = "ended"
     /\ vruns[r].removedCount > 0
     /\ r \notin vhandles

(***************************************************************************)
(* Properties of the search view: the empty result, the abort              *)
(***************************************************************************)
\* run r ends in this step
EndsNow(r) == r \in 1..Len(sruns') /\ sruns'[r].done /\ (r \notin RunIds \/ ~sruns[r].done)

\* C25: a run that completes without being aborted, with no source searched
\* or with no source that answered, publishes the empty-result state:
\* results empty, loading false, hasSearched true; and the mounted view
\* shows loading only while a debounce timer or a live run is under way.
C25_EmptyResultState ==
  [][/\ \A r \in 1..Len(sruns') :
          (EndsNow(r) /\ ~sruns'[r].aborted /\ ~sruns'[r].hadData) =>
            (saved'.results = <<>> /\ ~saved'.loading /\ saved'.hasSearched)
     /\ (smounted' /\ saved'.loading) =>
          (stimer'.set \/ \E r \in 1..Len(sruns') : ~sruns'[r].done /\ ~sruns'[r].aborted)]_vars

\* every selected source failed and the empty-result state is published
C25_Witness ==
  /\ spub.run # 0
  /\ \A api \in SourceApis : spub.tasks[api] = "failed"
  /\ saved.results = <<>>
  /\ ~saved.loading
  /\ saved.hasSearched

\* no source was selected and the empty-result state is published
C25_NothingSelected ==
  /\ \E r \in RunIds : sruns[r].done /\ ~sruns[r].searched
  /\ saved.results = <<>>
  /\ ~saved.loading
  /\ saved.hasSearched

\* when the requests of a run are issued, every earlier run has ended or
\* has had its controller aborted
C26_AbortedBeforeNewRequests ==
  \A r \in RunIds : r < Len(sruns) => (sruns[r].done \/ sruns[r].aborted)

\* C26: every run before the newest one has ended or is aborted when the
\* requests of the newest one are issued, and a request of an aborted run
\* ends as a cancellation only: none of them delivers its source's records
\* or fails on its own after the abort.
C26_SupersededRequestsAborted ==
  [][/\ C26_AbortedBeforeNewRequests'
     /\ \A r \in RunIds :
          (sruns[r].aborted /\ ~sruns[r].done) =>
            IF sruns'[r].done
            THEN sruns'[r].hadData => \E api \in SourceApis : sruns[r].tasks[api] = "data"
            ELSE \A api \in SourceApis :
                   sruns[r].tasks[api] = "pending" =>
                     sruns'[r].tasks[api] \in {"pending", "rejected"}]_vars

(***************************************************************************)
(* Properties of the search view: the search after an abort                *)
(***************************************************************************)
\* the run of the current controller is under way
SearchPending == sctrl # 0 /\ ~sruns[sctrl].done /\ ~sruns[sctrl].aborted

\* the query, the mode or the selection changes in this step
InputsChange ==
  /\ smounted /\ smounted'
  /\ <<squery', saved'.isAggregate, saved'.selected, saved'.hasSearched>>
       # <<squery, saved.isAggregate, saved.selected, saved.hasSearched>>
  /\ saved'.loading = saved.loading

\* the debounce timer is set for the inputs as they are after the step
SearchScheduled ==
  stimer' = [set |-> TRUE, query |-> squery', isAggregate |-> saved'.isAggregate,
             selected |-> saved'.selected]

\* C38: whenever a pending search is aborted because the query, the mode or
\* the selection changed, a new search is scheduled for the current inputs,
\* and, the requests terminating and the timer firing, loading returns to
\* false while the view is shown.
C38_LoadingEnds ==
  /\ [][(SearchPending /\ InputsChange) => (sruns'[sctrl].aborted /\ SearchScheduled)]_vars
  /\ (smounted /\ saved.loading) ~> (~saved.loading \/ ~smounted)

\* a search was aborted by a change of the inputs, and the search started
\* for the new inputs has published its result
C38_Witness ==
  /\ smounted
  /\ ~saved.loading
  /\ \E r1, r2 \in 1..Len(sruns) :
       /\ r1 < r2
       /\ sruns[r1].aborted /\ sruns[r1].superseded /\ ~sruns[r1].published
       /\ sruns[r1].searched
       /\ sruns[r2].published

(***************************************************************************)
(* Properties of the sanitizer: the backward walk, the tie                 *)
(***************************************************************************)
\* C29: a line that is not a segment is in the removal set exactly when it
\* is a duration, byte-range, key or discontinuity directive that precedes
\* a removed segment with nothing but such directives, comments and blank
\* lines between them: the walk of a segment takes nothing at or before
\* the first other directive or segment line above it.
C29_WalkTakesContiguousMetadata ==
  Sanitized =>
    \A j \in 1..Len(zdoc) :
      ~IsUriLine(zdoc[j]) =>
        (j \in zresult.removed <=>
           \E k \in zresult.removed : IsUriLine(zdoc[k]) /\ PrecedesAsMetadata(j, k))

\* the segment lines of the largest clusters, and the first of them
TiedSegments == {k \in SegLines : FpAt(k) \in LargestClusters}
FirstTied == LET tied == TiedSegments IN CHOOSE k \in tied : \A o \in tied : k <= o

\* C30: when the dominant share is reached, the dominant cluster is the one
\* of the largest clusters whose first segment comes first in the playlist;
\* the segments of every other cluster, tied ones included, are removed and
\* those of the dominant cluster are kept.
C30_FirstEncounteredWins ==
  (Sanitized /\ DominantShareReached) =>
    LET d == FpAt(FirstTied)
    IN zresult.removed \cap SegLines = MinorityLines(d)

\* two clusters of two segments each; the one met first is completed last;
\* its segments are kept and those of the other one removed
C30_Witness ==
  /\ Sanitized
  /\ Len(zdoc) = 4
  /\ SegLines = 1..4
  /\ FpAt(1) = FpAt(4) /\ FpAt(2) = FpAt(3) /\ FpAt(1) # FpAt(2)
  /\ zresult.removed = {2, 3}
  /\ Len(zresult.content) = 2

(***************************************************************************)
(* Properties of the sanitizer: what a removal leaves in place             *)
(***************************************************************************)
IsHeaderDirective(l) ==
  l.tag \in {"#EXTM3U", "#EXT-X-VERSION", "#EXT-X-TARGETDURATION", "#EXT-X-MEDIA-SEQUENCE",
             "#EXT-X-ENDLIST"}

\* the lines of segment s: those between the URI line before it and its own
OwnLines(s) == {j \in 1..(s - 1) : \A m \in j..(s - 1) : ~IsUriLine(zdoc[m])}

\* C35: removing a minority segment removes no line of a surviving segment
\* and no line of the header: every surviving segment keeps its #EXTINF (and
\* whatever else stands between the segment before it and itself), and the
\* #EXTM3U, version, target-duration, media-sequence and end-list directives
\* are never in the removal set.
C35_SurvivorsAndHeaderKept ==
  Sanitized =>
    LET removed == zresult.removed
    IN /\ \A k \in 1..Len(zdoc) : IsHeaderDirective(zdoc[k]) => k \notin removed
       /\ \A s \in SegLines \ removed : OwnLines(s) \cap removed = {}

\* a removed segment whose walk met the header at once, and a surviving
\* segment with its #EXTINF
C35_Witness ==
  /\ Sanitized
  /\ \E r \in SegLines \cap zresult.removed, s \in SegLines \ zresult.removed :
       /\ IsHeaderDirective(zdoc[r - 1])
       /\ zdoc[s - 1].tag = "#EXTINF"
       /\ (s - 1) \notin zresult.removed

\* the segments a key directive at line k governs: those after it, up to the
\* next key directive
GovernedBy(k) ==
  {s \in SegLines : s > k /\ \A m \in (k + 1)..(s - 1) : zdoc[m].tag # "#EXT-X-KEY"}

\* C36: an #EXT-X-KEY directive is removed only when no surviving segment
\* depends on it: a key directive that directly precedes a removed segment
\* but governs later surviving segments is still in the output.
C36_NeededKeyKept ==
  Sanitized =>
    \A k \in 1..Len(zdoc) :
       (zdoc[k].tag = "#EXT-X-KEY" /\ GovernedBy(k) \ zresult.removed # {})
          => k \notin zresult.removed

(***************************************************************************)
(* Properties of the merge                                                 *)
(***************************************************************************)
\* the records the selected sources returned, by source position and record
\* position; the encounter order is source order, then record order
Contributions ==
  {p \in (1..Len(MergeSources)) \X (1..MaxRecords + 1) :
     /\ MergeSources[p[1]] \in msel
     /\ p[2] <= Len(mresp[MergeSources[p[1]]])}

RecAt(p) == mresp[MergeSources[p[1]]][p[2]]

Before(p, q) == p[1] < q[1] \/ (p[1] = q[1] /\ p[2] < q[2])

FirstOf(S) == CHOOSE p \in S : \A q \in S : p = q \/ Before(p, q)

\* equal after trim and lowercase
SameTitle(t1, t2) == ToLowerCase(Trim(t1)) = ToLowerCase(Trim(t2))

TitleGroup(p) == {q \in Contributions : SameTitle(RecAt(q).title, RecAt(p).title)}

Canonicals == {p \in Contributions : p = FirstOf(TitleGroup(p))}

\* the sources that returned a record of the group of p, in source order,
\* each with the id of its first record of the group
ContributingSources(p) ==
  LET positions == [k \in 1..Len(MergeSources) |-> k]
      ordered == SelectSeq(positions, LAMBDA s : \E q \in TitleGroup(p) : q[1] = s)
  IN [j \in 1..Len(ordered) |->
        SourceEntry(MergeSources[ordered[j]], SourceName(MergeSources[ordered[j]]),
                    RecAt(FirstOf({q \in TitleGroup(p) : q[1] = ordered[j]})).id)]

\* the published records made of the canonical record p
PublishedOf(p) == {k \in 1..Len(mresults) : mresults[k].id = RecAt(p).id}

C23_ApiAtMostOnce ==
  mdone =>
    \A k \in 1..Len(mresults) :
      \A a, b \in 1..Len(mresults[k].availableSources) :
        mresults[k].availableSources[a].api = mresults[k].availableSources[b].api => a = b

\* one source returned two records of one title, another source a third one
C23_Witness ==
  /\ mdone
  /\ \E p \in Canonicals :
       /\ \E q \in TitleGroup(p) : q[1] = p[1] /\ q[2] # p[2]
       /\ \E q \in TitleGroup(p) : q[1] # p[1]
       /\ \A k \in PublishedOf(p) : Len(mresults[k].availableSources) = 2

\* the records merged into the canonical record p
LaterMatches(p) == TitleGroup(p) \ {p}

\* C24 as stated: a year or poster of the canonical record that is not
\* empty is kept, and a changed year or poster is that of a later match.
C24_BackfillOnlyEmpty ==
  mdone =>
    \A p \in Canonicals : \A k \in PublishedOf(p) :
      /\ RecAt(p).year # "" => mresults[k].year = RecAt(p).year
      /\ RecAt(p).image # <<>> => mresults[k].image = RecAt(p).image
      /\ mresults[k].year # RecAt(p).year =>
           \E q \in LaterMatches(p) : RecAt(q).year = mresults[k].year
      /\ mresults[k].image # RecAt(p).image =>
           \E q \in LaterMatches(p) : RecAt(q).image = mresults[k].image

\* C24, amended: a year that is not empty and a poster of 10 characters or
\* more are kept; the year changes only when it was empty, the poster only
\* when it was empty or shorter than 10 characters, and then to the value
\* of a later match that has one.
C24_BackfillEmptyOrShort ==
  mdone =>
    \A p \in Canonicals : \A k \in PublishedOf(p) :
      /\ RecAt(p).year # "" => mresults[k].year = RecAt(p).year
      /\ Len(RecAt(p).image) >= 10 => mresults[k].image = RecAt(p).image
      /\ mresults[k].year # RecAt(p).year =>
           \E q \in LaterMatches(p) : RecAt(q).year = mresults[k].year /\ RecAt(q).year # ""
      /\ mresults[k].image # RecAt(p).image =>
           \E q \in LaterMatches(p) : RecAt(q).image = mresults[k].image /\ RecAt(q).image # <<>>

\* a canonical record with a year and a short poster met a match with
\* another year and a poster URL: the year is kept, the poster replaced
C24_Witness ==
  /\ mdone
  /\ \E p \in Canonicals : \E q \in LaterMatches(p) : \A k \in PublishedOf(p) :
       /\ RecAt(p).year = "1999" /\ RecAt(p).image = ShortImage
       /\ RecAt(q).year = "2010" /\ Len(RecAt(q).image) >= 10
       /\ mresults[k].year = "1999"
       /\ mresults[k].image = RecAt(q).image

\* the orders in which the requests of the selected sources can settle
ArrivalOrders ==
  {q \in [1..Cardinality(msel) -> msel] : \A a, b \in DOMAIN q : q[a] = q[b] => a = b}

\* C27: for the selection and the responses of this query, every arrival
\* order yields the published list: the same canonical records, in the same
\* order, with the same availableSources.
C27_ArrivalOrderIrrelevant ==
  mdone => \A arrival \in ArrivalOrders : MergedFor(mresp, msel, arrival) = mresults

\* three sources with a common title answered in the reverse of the list
\* order
C27_Witness ==
  /\ mdone
  /\ marrived = <<"C", "B", "A">>
  /\ Len(mresults) = 1
  /\ Len(mresults[1].availableSources) = 3
  /\ mresults[1].sourceApi = "A"

(***************************************************************************)
(* Properties of parsePlayUrl                                              *)
(***************************************************************************)
\* what a source means by an episode text: the name before the first '$'
\* and the URL after it, both without surrounding blanks; NoEpisode when the
\* text holds no http(s) or protocol-relative URL
MeantEpisode(text) ==
  CASE text = <<"n", "$", HttpHost, ".m3u8">> -> [name |-> <<"n">>, url |-> <<HttpHost, ".m3u8">>]
    [] text = <<" ", HttpHost, ".mp4", " ">> -> [name |-> DefaultName, url |-> <<HttpHost, ".mp4">>]
    [] text = <<"n", "$", BareHost, ".m3u8">> ->
         [name |-> <<"n">>, url |-> <<"https:", BareHost, ".m3u8">>]
    [] text = <<"n", " ", "$", " ", HttpHost>> -> [name |-> <<"n">>, url |-> <<HttpHost>>]
    [] text = <<"n", "$", HttpHost, ".mp4">> -> [name |-> <<"n">>, url |-> <<HttpHost, ".mp4">>]
    [] OTHER -> NoEpisode

\* the episodes of group g of the input
EpisodesOfGroup(g) ==
  SelectSeq([k \in 1..Len(ugroups[g]) |-> MeantEpisode(ugroups[g][k])],
            LAMBDA e : e # NoEpisode)

GroupHas(g, ext) ==
  \E k \in 1..Len(EpisodesOfGroup(g)) : EpisodesOfGroup(g)[k].url[Len(EpisodesOfGroup(g)[k].url)] = ext

GroupIds == 1..Len(ugroups)

FirstGroup(S) == CHOOSE g \in S : \A j \in S : g <= j

M3u8Groups == {g \in GroupIds : GroupHas(g, ".m3u8")}
Mp4Groups == {g \in GroupIds : GroupHas(g, ".mp4")}
NonEmptyGroups == {g \in GroupIds : EpisodesOfGroup(g) # <<>>}

\* C28: the result is the episodes of the first group with an .m3u8 URL; of
\* the first group with an .mp4 URL when no group has an .m3u8 URL; of the
\* first group with an episode otherwise; and the empty list when no group
\* has an episode.
C28_BestGroup ==
  udone =>
    ubest = IF M3u8Groups # {} THEN EpisodesOfGroup(FirstGroup(M3u8Groups))
            ELSE IF Mp4Groups # {} THEN EpisodesOfGroup(FirstGroup(Mp4Groups))
            ELSE IF NonEmptyGroups # {} THEN EpisodesOfGroup(FirstGroup(NonEmptyGroups))
            ELSE <<>>

\* the first group has an .mp4 episode only, the second one an .m3u8
\* episode: the second group is returned
C28_Witness ==
  /\ udone
  /\ Len(ugroups) = 2
  /\ GroupHas(1, ".mp4") /\ ~GroupHas(1, ".m3u8")
  /\ GroupHas(2, ".m3u8")
  /\ ubest = EpisodesOfGroup(2)
  /\ ubest # EpisodesOfGroup(1)

(***************************************************************************)
(* Properties of the health scan                                           *)
(***************************************************************************)
Range(q) == {q[k] : k \in 1..Len(q)}

NumSources == Len(hsources)

\* the sources classified so far (skipped, or probed and the probe is over)
Processed == 1..Len(hs.outcomes)

\* an earlier source of the list has the same API URL
IsDuplicate(j) == \E i \in 1..(j - 1) : hsources[i] = hsources[j]

\* an earlier source with the same API URL was found healthy
IsDuplicateOfWorking(j) ==
  \E i \in 1..(j - 1) : hsources[i] = hsources[j] /\ i \in Range(hs.working)

ScanEnded == hs.done /\ ~hchecking

\* C17: a source whose API URL equals that of an earlier source is never
\* probed, is counted in duplicatesCount and is not in workingSources,
\* whether the earlier one was healthy or dead.
C17_DuplicatesSkipped ==
  /\ \A j \in 1..NumSources :
       IsDuplicate(j) => (j \notin Range(hs.starts) /\ j \notin Range(hs.working))
  /\ hs.dup = Cardinality({j \in Processed : IsDuplicate(j)})

\* the same for the duplicates of a source that was found healthy
C17_DuplicatesOfWorkingSkipped ==
  /\ \A j \in 1..NumSources :
       IsDuplicateOfWorking(j) => (j \notin Range(hs.starts) /\ j \notin Range(hs.working))
  /\ hs.dup = Cardinality({j \in Processed : IsDuplicateOfWorking(j)})

\* C18: at most one probe is in flight, probes start in list order, and
\* while the probe of a source is in flight every source before it has been
\* classified (its probe is over, or it was skipped).
C18_OneProbeInOrder ==
  /\ Cardinality(hs.inflight) <= 1
  /\ \A a, b \in 1..Len(hs.starts) : a < b => hs.starts[a] < hs.starts[b]
  /\ \A i \in hs.inflight :
       /\ i = hs.starts[Len(hs.starts)]
       /\ Len(hs.outcomes) = i - 1

\* the third source is being probed after the first two were probed, one
\* of them without success
C18_Witness ==
  /\ hs.inflight = {3}
  /\ hs.starts = <<1, 2, 3>>
  /\ "throws" \in Range(hs.outcomes)

\* C19: a probe that throws (or returns nothing recognizable) makes its
\* source dead and the loop goes on: while the flag is set a probe is in
\* flight for the next source not yet classified, and once the loop is over
\* every source has been classified, the statistics are published and the
\* flag is cleared.
C19_FailureIsDead ==
  /\ \A k \in Processed :
       hs.outcomes[k] \in {"throws", "unrecognized"} =>
         (hsources[k] \in Range(hs.deadApis) /\ k \notin Range(hs.working))
  /\ hs.dead = Cardinality({k \in Processed : hs.outcomes[k] \in {"throws", "unrecognized"}})
  /\ hchecking => (hs.inflight = {Len(hs.outcomes) + 1} /\ Len(hs.outcomes) < NumSources)
  /\ (~hchecking /\ hs # NoScan) =>
       /\ hs.done
       /\ Len(hs.outcomes) = NumSources
       /\ hstats # NoStats
       /\ hstats.total = NumSources
       /\ hstats.dead = hs.dead

\* a scan of three sources has ended although every probe threw
C19_Witness ==
  /\ ScanEnded
  /\ hs.outcomes = <<"throws", "throws", "throws">>
  /\ hstats.dead = 3
  /\ hstats.cleanedList = <<>>

\* C20 as stated: the notifications are numbered 1 to N, with total N, and
\* the one of a source is emitted when the probe of that source is over.
C20_NotifiedAfterProbe ==
  \A k \in 1..Len(hs.notes) :
    /\ hs.notes[k] = [current |-> k, total |-> NumSources]
    /\ hs.notes[k].current <= Len(hs.outcomes)

\* C20, amended: a first notification has index 0; then each source, skipped
\* ones included, gets one notification, numbered 1 to N with total N, which
\* is emitted before the source is probed or skipped and after the source
\* before it has been classified.
C20_NotifiedBeforeProbe ==
  /\ \A k \in 1..Len(hs.notes) : hs.notes[k] = [current |-> k - 1, total |-> NumSources]
  /\ \A i \in hs.inflight :
       /\ Len(hs.notes) = i + 1
       /\ Len(hs.outcomes) = i - 1
  /\ hs.done => (Len(hs.notes) = NumSources + 1 /\ Len(hs.outcomes) = NumSources)

\* a scan of three sources, one of them skipped, has ended with the four
\* notifications 0 to 3
C20_Witness ==
  /\ ScanEnded
  /\ NumSources = 3
  /\ Len(hs.notes) = 4
  /\ hs.notes[4] = [current |-> 3, total |-> 3]
  /\ "duplicate" \in Range(hs.outcomes)
  /\ Len(hs.starts) = 2

\* the sources of each class at the end of a scan
WorkingClass == Range(hstats.cleanedList)
DuplicateClass == {j \in 1..NumSources : hs.outcomes[j] = "duplicate"}
DeadClass == {j \in 1..NumSources : hs.outcomes[j] \in {"throws", "unrecognized"}}

\* C37: at the end of every scan duplicates + dead + |workingSources| =
\* total, every source is in exactly one of the three classes, and
\* workingSources has no two entries with the same api.
C37_CountsConsistent ==
  ScanEnded =>
    /\ hstats.total = NumSources
    /\ hstats.duplicates + hstats.dead + Len(hstats.cleanedList) = hstats.total
    /\ hstats.duplicates = Cardinality(DuplicateClass)
    /\ hstats.dead = Cardinality(DeadClass)
    /\ Len(hstats.cleanedList) = Cardinality(WorkingClass)
    /\ WorkingClass \cup DuplicateClass \cup DeadClass = 1..NumSources
    /\ WorkingClass \cap DuplicateClass = {}
    /\ WorkingClass \cap DeadClass = {}
    /\ \A a, b \in 1..Len(hstats.cleanedList) :
         a # b => hsources[hstats.cleanedList[a]] # hsources[hstats.cleanedList[b]]

\* a scan of three sources has ended with one source in each class
C37_Witness ==
  /\ ScanEnded
  /\ hs.outcomes = <<"healthy", "duplicate", "throws">>
  /\ hstats.duplicates = 1 /\ hstats.dead = 1 /\ Len(hstats.cleanedList) = 1

\* C21: from the start of a health scan through its completion the stored
\* custom sources (with allSources), the disabled APIs and the current
\* source keep their values; they change only in a step of confirmCleanup,
\* which needs the statistics of a finished scan.
C21_ScanLeavesConfiguration ==
  [][/\ (hchecking \/ hchecking') => hconfig' = hconfig
     /\ hconfig' # hconfig => (~hchecking /\ hstats # NoStats /\ hstats' = NoStats)]_vars

\* a scan has ended that found a custom source and a default source dead,
\* and the dead default source is not disabled
C21_Witness ==
  /\ ScanEnded
  /\ hstats # NoStats
  /\ \E i, j \in Processed :
       /\ IsCustom(i) /\ hs.outcomes[i] = "throws"
       /\ ~IsCustom(j) /\ hs.outcomes[j] = "throws" /\ hsources[j] \notin hdisabled

\* the sources that are not disabled
AvailableSources == {hsources[k] : k \in {j \in 1..Len(hsources) : hsources[j] \notin hdisabled}}

\* C39: after any sequence of source-management operations, whenever at
\* least one source is not disabled the current source is not disabled and
\* is in the list of the available sources.
C39_CurrentAvailable ==
  AvailableSources # {} => hcurrent \in AvailableSources

(***************************************************************************)
(* Properties of the watch history                                         *)
(***************************************************************************)
\* the movie added last
LastAdded == CHOOSE id \in MovieIds : \A other \in MovieIds : ystamp[other] <= ystamp[id]

\* C40: the stored history never has more than 50 entries, never two with
\* the same id, and it is in the order of the additions, the movie added
\* most recently first.
C40_HistoryBounded ==
  /\ Len(ystored) <= MAX_HISTORY_ITEMS
  /\ \A a, b \in 1..Len(ystored) : a # b => ystored[a].id # ystored[b].id
  /\ \A a, b \in 1..Len(ystored) : a < b => ystamp[ystored[a].id] > ystamp[ystored[b].id]
  /\ (\E k \in 1..Len(ystored) : ystored[k].id = LastAdded) => ystored[1].id = LastAdded

\* a full history took a new movie and lost its oldest one, and a movie
\* stored before was opened again and moved to the front
C40_Witness ==
  /\ Len(ystored) = MAX_HISTORY_ITEMS
  /\ ystored[1].id = MAX_HISTORY_ITEMS
  /\ ystored[2].id = MAX_HISTORY_ITEMS + 1
  /\ \A k \in 1..Len(ystored) : ystored[k].id # 1

(***************************************************************************)
(* Properties of the relay and of the poster cache                         *)
(***************************************************************************)
\* C32: the relay answers a request without url parameter with 400 and a
\* throwing upstream fetch with 500; otherwise it returns the raw body of the
\* upstream with the upstream's content type, and a failure of the upstream
\* reaches the caller as an error, not as a success.
C32_UpstreamFailureVisible ==
  rpc = "done" =>
    /\ rparam \in {NoParam, ""} => rresponse.status = 400
    /\ (rparam \notin {NoParam, ""} /\ rupstream = NoUpstream) => rresponse.status = 500
    /\ (rupstream # NoUpstream /\ rupstream.contentType # "" /\ rresponse.status # 500)
         => rresponse.contentType = rupstream.contentType
    /\ (rupstream # NoUpstream /\ rupstream.status >= 400) => rresponse.status >= 400

\* C33: over any sequence of lookups, overlapping ones included, at most one
\* network request is made per poster id: every lookup of an id after the
\* first is answered from the cache, whatever the first one came to.
C33_OneRequestPerId == \A id \in PosterIds : irequests[id] <= 1

(***************************************************************************)
(* Specifications                                                          *)
(***************************************************************************)
IdleFetch ==
  /\ fpc = "idle"
  /\ fi = 0
  /\ ftarget = {}
  /\ fext = "none"
  /\ fany = FALSE
  /\ ftimer = FALSE
  /\ flastError = NoError
  /\ fresult = NoResult
  /\ flog = <<>>

IdleSearch ==
  /\ smounted = FALSE
  /\ squery = ""
  /\ saved = InitialSearchState
  /\ stimer = NoTimer
  /\ sctrl = 0
  /\ sruns = <<>>
  /\ spub = NoPub

IdleCall ==
  /\ zpc = "idle"
  /\ zdepth = 0
  /\ zurl = StartUrl
  /\ ztimer = FALSE
  /\ zdoc = <<>>
  /\ zresult = NoCleanResult

IdleSanitize == IdleCall /\ zorigin = "media"

IdleScan ==
  /\ hsources = <<>>
  /\ hndefault = 0
  /\ hdisabled = {}
  /\ hcurrent = ""
  /\ hchecking = FALSE
  /\ hstats = NoStats
  /\ hs = NoScan

IdleMerge ==
  /\ msel = {}
  /\ mresp = [api \in MergeApis |-> <<>>]
  /\ marrived = <<>>
  /\ mresults = <<>>
  /\ mdone = FALSE

IdleParse ==
  /\ ugroups = <<>>
  /\ ustr = <<>>
  /\ ubest = <<>>
  /\ udone = FALSE

IdlePlayer ==
  /\ pmounted = TRUE
  /\ purl = ""
  /\ pruns = <<>>
  /\ part = 0
  /\ pblob = 0
  /\ phandles = {}

IdlePlayVideo ==
  /\ vmounted = TRUE
  /\ vurl = ""
  /\ vruns = <<>>
  /\ vart = 0
  /\ vshown = NoUrl
  /\ vblob = 0
  /\ vhandles = {}

IdleOld ==
  /\ IdleFetch /\ IdleSearch /\ IdleSanitize /\ IdlePlayer /\ IdleScan /\ IdleMerge
  /\ IdleParse

IdleHistory ==
  /\ ystored = <<>>
  /\ ystamp = [id \in MovieIds |-> 0]
  /\ yclock = 0

IdleRelay ==
  /\ rpc = "idle"
  /\ rparam = NoParam
  /\ rupstream = NoUpstream
  /\ rresponse = NoResponse

IdleImages ==
  /\ icache = [id \in PosterIds |-> NotCached]
  /\ ilookups = <<>>
  /\ irequests = [id \in PosterIds |-> 0]

IdleNew == IdlePlayVideo /\ IdleHistory /\ IdleRelay /\ IdleImages

\* the first components but the sanitizer
IdleButSanitize == IdleFetch /\ IdleSearch /\ IdlePlayer /\ IdleScan /\ IdleMerge /\ IdleParse

InitFetch ==
  /\ fpc = "idle"
  /\ fi = 0
  /\ ftarget \in TargetUrls
  /\ fext \in {"none", "live"}
  /\ fany \in BOOLEAN
  /\ ftimer = FALSE
  /\ flastError = NoError
  /\ fresult = NoResult
  /\ flog = <<>>
  /\ IdleSearch
  /\ IdleSanitize
  /\ IdlePlayer
  /\ IdleScan
  /\ IdleMerge /\ IdleParse /\ IdleNew

NextFetch ==
  \/ FetchCall
  \/ \E status \in Statuses : FetchResolves(status)
  \/ FetchRejects
  \/ TimeoutFires
  \/ \E text \in Bodies : BodyArrives(text)
  \/ BodyFails
  \/ ExternalAbort

InitSearch == IdleSearch /\ IdleFetch /\ IdleSanitize /\ IdlePlayer /\ IdleScan /\ IdleMerge /\ IdleParse /\ IdleNew

NextSearch ==
  \/ \E q \in Queries, autoAggregate \in BOOLEAN : HandleSearch(q, autoAggregate)
  \/ \E api \in SourceApis : ToggleSourceSelection(api)
  \/ ToggleAllSources
  \/ ToggleAggregateMode
  \/ LeaveSearchView
  \/ ReturnToSearchView
  \/ DoSearch
  \/ \E r \in 1..MaxRuns, api \in SourceApis, outcome \in {"data", "failed", "rejected"} :
        TaskSettles(r, api, outcome)

SpecFetch == InitFetch /\ [][NextFetch]_vars

\* The timer is the only thing the program itself schedules; the upstreams
\* owe no answer.
FairSpecFetch == SpecFetch /\ WF_vars(FetchCall) /\ WF_vars(TimeoutFires)

SpecSearch == InitSearch /\ [][NextSearch]_vars

\* the user changes the inputs only finitely often: while a run can still
\* be started
RoomForRun == Len(sruns) < MaxRuns

NextSearchWithRoom ==
  \/ RoomForRun /\ \E q \in Queries, autoAggregate \in BOOLEAN : HandleSearch(q, autoAggregate)
  \/ RoomForRun /\ \E api \in SourceApis : ToggleSourceSelection(api)
  \/ RoomForRun /\ ToggleAllSources
  \/ RoomForRun /\ ToggleAggregateMode
  \/ RoomForRun /\ LeaveSearchView
  \/ ReturnToSearchView
  \/ DoSearch
  \/ \E r \in 1..MaxRuns, api \in SourceApis, outcome \in {"data", "failed", "rejected"} :
        TaskSettles(r, api, outcome)

\* the debounce timer fires, and every request issued comes to an end: one
\* that is not answered otherwise ends as a failure
FairSpecSearch ==
  /\ InitSearch
  /\ [][NextSearchWithRoom]_vars
  /\ WF_vars(DoSearch)
  /\ WF_vars(\E r \in 1..MaxRuns, api \in SourceApis : TaskSettles(r, api, "failed"))

InitSanitize == IdleSanitize /\ IdleFetch /\ IdleSearch /\ IdlePlayer /\ IdleScan /\ IdleMerge /\ IdleParse /\ IdleNew

NextSanitize ==
  \/ SanitizeCall
  \/ \E ok \in BOOLEAN : PlaylistFetchResolves(ok)
  \/ \E timeout \in BOOLEAN : PlaylistFetchFails(timeout)
  \/ PlaylistBodyFails
  \/ PlaylistArrives

SpecSanitize == InitSanitize /\ [][NextSanitize]_vars

\* the same calls against an origin of master playlists
InitVariants ==
  IdleCall /\ zorigin = "variants" /\ IdleFetch /\ IdleSearch /\ IdlePlayer /\ IdleScan
  /\ IdleMerge /\ IdleParse /\ IdleNew

SpecVariants == InitVariants /\ [][NextSanitize]_vars

\* the same calls against an origin of complete media playlists
InitComplete == IdleCall /\ zorigin = "complete" /\ IdleButSanitize /\ IdleNew

SpecComplete == InitComplete /\ [][NextSanitize]_vars

InitPlayer == IdlePlayer /\ IdleFetch /\ IdleSearch /\ IdleSanitize /\ IdleScan /\ IdleMerge /\ IdleParse /\ IdleNew

NextPlayer ==
  \/ \E u \in EpisodeUrls : SetCurrentUrl(u)
  \/ ChangeMovie
  \/ UnmountPlayer
  \/ \E r \in 1..MaxPlays, ready \in BOOLEAN : LibsSettle(r, ready)
  \/ \E r \in 1..MaxPlays, ok \in BOOLEAN : CallFetchResolves(r, ok)
  \/ \E r \in 1..MaxPlays : CallFetchRejects(r)
  \/ \E r \in 1..MaxPlays : CallTimesOut(r)
  \/ \E r \in 1..MaxPlays : CallBodyFails(r)
  \/ \E r \in 1..MaxPlays : CallFollowsVariant(r)
  \/ \E r \in 1..MaxPlays, n \in 0..1 : CallReturns(r, n)

SpecPlayer == InitPlayer /\ [][NextPlayer]_vars

InitScan ==
  /\ hsources \in SourceLists
  /\ hndefault \in 0..Len(hsources)
  /\ hdisabled \in {d \in SUBSET ApiUrls : Cardinality(d) <= 1}
  /\ hcurrent \in InitialCurrent(hsources, hdisabled)
  /\ hchecking = FALSE
  /\ hstats = NoStats
  /\ hs = NoScan
  /\ IdleFetch /\ IdleSearch /\ IdleSanitize /\ IdlePlayer /\ IdleMerge /\ IdleParse /\ IdleNew

NextScan ==
  \/ RunSourceCheck
  \/ ConfirmCleanup
  \/ \E i \in 1..MaxSources, outcome \in ProbeOutcomes : ProbeSettles(i, outcome)

SpecScan == InitScan /\ [][NextScan]_vars

\* the handlers of App, from a configuration as initSources leaves it
NextSources ==
  \/ \E api \in ApiUrls : HandleAddCustomSource(api)
  \/ \E api \in ApiUrls : HandleRemoveCustomSource(api)
  \/ \E n \in 0..MaxSources : \E newCustom \in [1..n -> ApiUrls] :
        HandleUpdateCustomSources(newCustom)
  \/ \E newDisabled \in SUBSET ApiUrls : HandleUpdateDisabledSources(newDisabled)

SpecSources == InitScan /\ [][NextSources]_vars

InitMerge ==
  /\ msel \in SUBSET MergeApis \ {{}}
  /\ \E na, nb, nc \in 0..MaxRecords :
       /\ na + nb + nc <= MaxRecords
       /\ "A" \notin msel => na = 0
       /\ "B" \notin msel => nb = 0
       /\ "C" \notin msel => nc = 0
       /\ \E ra \in ResponsesOfLength("A", na), rb \in ResponsesOfLength("B", nb),
             rc \in ResponsesOfLength("C", nc) :
            mresp = [api \in MergeApis |->
                       IF api = "A" THEN ra ELSE IF api = "B" THEN rb ELSE rc]
  /\ marrived = <<>>
  /\ mresults = <<>>
  /\ mdone = FALSE
  /\ IdleFetch /\ IdleSearch /\ IdleSanitize /\ IdlePlayer /\ IdleScan /\ IdleParse /\ IdleNew

NextMerge == \E api \in MergeApis : ResponseArrives(api)

SpecMerge == InitMerge /\ [][NextMerge]_vars

InitParse ==
  /\ ugroups \in GroupLists
  /\ ustr = PlayUrlOf(ugroups)
  /\ ubest = <<>>
  /\ udone = FALSE
  /\ IdleFetch /\ IdleSearch /\ IdleSanitize /\ IdlePlayer /\ IdleScan /\ IdleMerge /\ IdleNew

NextParse == ParseCall

SpecParse == InitParse /\ [][NextParse]_vars

InitPlayVideo == IdlePlayVideo /\ IdleOld /\ IdleHistory /\ IdleRelay /\ IdleImages

InitRelay == IdleRelay /\ IdleOld /\ IdlePlayVideo /\ IdleHistory /\ IdleImages

NextRelay ==
  \/ \E param \in UrlParams : OnRequest(param)
  \/ \E status \in UpstreamStatuses, ctype \in ContentTypes : UpstreamResolves(status, ctype)
  \/ UpstreamRejects
  \/ \E body \in UpstreamBodies : UpstreamBodyArrives(body)
  \/ UpstreamBodyFails
  \/ NextRequest

SpecRelay == InitRelay /\ [][NextRelay]_vars

InitImages == IdleImages /\ IdleOld /\ IdlePlayVideo /\ IdleHistory /\ IdleRelay

NextImages ==
  \/ \E id \in PosterIds \cup {""} : FetchWMDBImage(id)
  \/ \E k \in 1..MaxLookups : DelayEnds(k)
  \/ \E k \in 1..MaxLookups, outcome \in LookupOutcomes : RequestSettles(k, outcome)

SpecImages == InitImages /\ [][NextImages]_vars

\* the history after the movies 1 to n were opened in turn
InitHistory ==
  /\ \E n \in {0, 1, MAX_HISTORY_ITEMS - 1, MAX_HISTORY_ITEMS} :
       /\ ystored = [k \in 1..n |-> Movie(n + 1 - k, TRUE, 0)]
       /\ ystamp = [id \in MovieIds |-> IF id \in 1..n THEN id ELSE 0]
       /\ yclock = 0
  /\ IdleOld
  /\ IdlePlayVideo /\ IdleRelay /\ IdleImages

NextHistory ==
  \/ \E id \in OpenedIds, titled \in BOOLEAN, t \in 0..1 : AddToHistory(Movie(id, titled, t))
  \/ \E id \in OpenedIds, t \in 0..1 : UpdateHistoryProgress(id, t)
  \/ \E id \in OpenedIds : RemoveFromHistory(id)
  \/ ClearHistory

SpecHistory == InitHistory /\ [][NextHistory]_vars

NextPlayVideo ==
  \/ \E u \in EpisodeUrls : SelectEpisode(u)
  \/ ChangeMovieId
  \/ ToggleAcceleration
  \/ LeavePlayer
  \/ \E r \in 1..MaxEffects, n \in 0..1 : CleanResolves(r, n)
  \/ \E r \in 1..MaxEffects : CleanThrows(r)
  \/ \E r \in 1..MaxEffects, ready \in BOOLEAN : LibsReady(r, ready)

SpecPlayVideo == InitPlayVideo /\ [][NextPlayVideo]_vars

\* the timers of the code fire: waitForGlobal gives up after its timeout,
\* the 8 s timer aborts a pending fetch; the network owes nothing
FairSpecPlayer ==
  /\ SpecPlayer
  /\ \A r \in 1..MaxPlays : WF_vars(\E ready \in BOOLEAN : LibsSettle(r, ready))
  /\ \A r \in 1..MaxPlays : WF_vars(CallTimesOut(r))

====
